---- MODULE Spec2Model ----
(***************************************************************************)
(* Model of the chat server's routing core: room registry, presence        *)
(* directory, typing sets, rate limiter, relay and the WebSocket message   *)
(* and close handlers (server.ts, rate-limit.ts, redis.ts, messages.ts).   *)
(***************************************************************************)
EXTENDS Integers, Sequences, FiniteSets, TLC

\* ------------------------------------------------------------------ bounds
\* Largest number of frames one rate-limit key may submit (allowed or denied).
MaxFrames == 5
\* Largest number of rows in the messages table.
MaxStore == 2
\* Largest number of handlers suspended at an await at the same time.
MaxTasks == 1
\* Largest value of the clock in the rate limiter specification.
MaxTime == 6
\* Largest number of envelopes waiting in the relay subscription.
MaxRelay == 2
\* Largest number of suspended handlers where handlers are to overlap.
MaxOverlap == 2
\* Largest number of checks of one key in one window.
MaxChecks == 6

\* ------------------------------------------------- configuration constants
\* RATE_LIMIT_MAX_WS_MESSAGES (scaled down from the default 50).
maxWsMessages == 4
\* RATE_LIMIT_MAX_REQUESTS (scaled down from the default 100).
maxRequests == 5
\* RATE_LIMIT_WINDOW_MS (scaled down from the default 60000).
windowMs == 3

\* ------------------------------------------------------------ input domains
Conn == {"c1", "c2", "c3"}
NoConn == "none"
RoomNames == {"general", "dev"}
\* The identities a join frame may carry: (username, userId) pairs.
Identities == { [username |-> "alice", userId |-> "u1"],
                [username |-> "bob",   userId |-> "u2"] }
NoData == [username |-> "", userId |-> ""]
UserIds == { i.userId : i \in Identities }
\* Sample strings for the validators: "" and "bad id!" are rejected.
BadStrings == {"", "bad id!"}
\* The instance id of this process and of one other process on the relay.
instanceId == "A"
OtherInstance == "B"
\* The sends that throw during one step: none, or every send to c1.
FailSets == { {}, {"c1"} }

VARIABLES
    rooms,          \* rooms: room name -> sequence of member connections (Set order)
    clientRooms,    \* clientRooms: connection -> sequence of room names (Set order)
    clientData,     \* clientData: connection -> {username, userId} or NoData
    userIdToSocket, \* userIdToSocket: userId -> connection
    typingUsers,    \* typingUsers: room name -> set of usernames
    status,         \* connection -> "idle" (not yet accepted), "open" or "closed"
    store,          \* the messages table: sequence of rows, id = position
    blocked,        \* the blocked_users table: set of <<blocker, blocked>>
    tasks,          \* handlers suspended at an await (sequence, oldest first)
    rl,             \* RateLimiter.store: key -> [count, resetTime]
    unswept,        \* what RateLimiter.store would hold had no sweep ever run
    now,            \* Date.now()
    redisEnabled,   \* redis.ts redisEnabled
    useRabbitMQ,    \* server.ts useRabbitMQ
    relay,          \* envelopes published and not yet delivered to the subscriber
    sent,           \* send attempts made by the last step, in order
    last            \* the last step: what ran, with its inputs and outcome

vars == << rooms, clientRooms, clientData, userIdToSocket, typingUsers, status,
           store, blocked, tasks, rl, unswept, now, redisEnabled, useRabbitMQ, relay,
           sent, last >>

\* ---------------------------------------------------------------- helpers
EmptyMap == [x \in {} |-> x]
Range(s) == { s[i] : i \in DOMAIN s }
Remove(s, x) == SelectSeq(s, LAMBDA y : y # x)
MapPut(m, k, v) == [x \in DOMAIN m \cup {k} |-> IF x = k THEN v ELSE m[x]]
MapDel(m, k) == [x \in DOMAIN m \ {k} |-> m[x]]
MaxOf(a, b) == IF a >= b THEN a ELSE b

\* An outbound event; the fields an event kind does not carry stay at these values.
Ev == [ type |-> "", room |-> "", username |-> "", userCount |-> 0,
        users |-> <<>>, typing |-> {}, roomList |-> {}, id |-> 0, status |-> "", peer |-> "",
        offline |-> FALSE, remaining |-> 0, resetAt |-> 0,
        sentCount |-> 0, offlineCount |-> 0, offlineRecipients |-> <<>>, seq |-> 0 ]

\* One call of ws.send: it throws when the connection is in fail.
Attempt(c, ev, fail) == [to |-> c, ok |-> c \notin fail, ev |-> ev]

\* What a step records about itself; the fields it does not use stay at these values.
\* was: what held before the step (a member, typing); flag: an input or outcome;
\* sock: the connection a dm handler looked up; threw: an exception left the handler.
Step == [ op |-> "", ws |-> NoConn, room |-> "", userId |-> "", username |-> "",
          peer |-> "", id |-> 0, sock |-> NoConn, was |-> FALSE, flag |-> FALSE,
          threw |-> FALSE, key |-> "", remaining |-> 0, resetAt |-> 0, ids |-> <<>> ]

\* ws is a member of the room in rs.
IsMember(rs, roomName, ws) == roomName \in DOMAIN rs /\ ws \in Range(rs[roomName])

\* -------------------------------------------------------------- RateLimiter
\* checkLimit that starts a new window when the cap is exceeded.
checkLimitRestartsOnExceed(st, identifier, isWebSocket, t) ==
    LET max   == IF isWebSocket THEN maxWsMessages ELSE maxRequests
        fresh == identifier \notin DOMAIN st \/ t > st[identifier].resetTime
        entry == IF fresh THEN [count |-> 0, resetTime |-> t + windowMs]
                          ELSE st[identifier]
        count == entry.count + 1
        reset == IF count > max THEN t + windowMs ELSE entry.resetTime
    IN  [ store     |-> MapPut(st, identifier, [count |-> count, resetTime |-> reset]),
          allowed   |-> count <= max,
          remaining |-> MaxOf(0, max - count),
          resetAt   |-> reset ]

\* RateLimiter.checkLimit: the new store and the returned {allowed, remaining, resetAt}.
checkLimit(st, identifier, isWebSocket, t) ==
    LET max   == IF isWebSocket THEN maxWsMessages ELSE maxRequests
        fresh == identifier \notin DOMAIN st \/ t > st[identifier].resetTime
        entry == IF fresh THEN [count |-> 0, resetTime |-> t + windowMs]
                          ELSE st[identifier]
        count == entry.count + 1
    IN  [ store     |-> MapPut(st, identifier, [count |-> count, resetTime |-> entry.resetTime]),
          allowed   |-> count <= max,
          remaining |-> MaxOf(0, max - count),
          resetAt   |-> entry.resetTime ]

\* A gate that counts the frame and allows it whatever the count.
rateLimitAllowsAll(st, identifier, t) ==
    [checkLimit(st, identifier, TRUE, t) EXCEPT !.allowed = TRUE]

\* rateLimitWebSocket(identifier)
rateLimitWebSocket(st, identifier, t) == checkLimit(st, identifier, TRUE, t)

\* A sweep that deletes every entry.
cleanupAll(st, t) == EmptyMap

\* RateLimiter.cleanup: delete the entries whose window has elapsed.
cleanup(st, t) ==
    LET keep == { k \in DOMAIN st : ~(t > st[k].resetTime) }
    IN  [k \in keep |-> st[k]]

\* The rate-limit identifier of a frame: no connection of the model carries a
\* token, and all come from one remote address.
remoteAddress(ws) == "10.0.0.1"
identifier(ws) == <<"ws", remoteAddress(ws)>>

\* -------------------------------------------------------------------- relay
\* redis.ts publishBroadcast: the envelopes it publishes (none when disabled).
publishBroadcast(room, data) ==
    IF ~redisEnabled THEN <<>>
    ELSE << [from |-> instanceId, type |-> "broadcast", room |-> room, to |-> "", data |-> data] >>

\* A publishSignal that publishes the envelope twice.
publishSignalTwice(to, payload) ==
    IF ~redisEnabled THEN <<>>
    ELSE LET e == [from |-> instanceId, type |-> "signal", room |-> "", to |-> to,
                   data |-> payload]
         IN  << e, e >>

\* redis.ts publishSignal
publishSignal(to, payload) ==
    IF ~redisEnabled THEN <<>>
    ELSE << [from |-> instanceId, type |-> "signal", room |-> "", to |-> to, data |-> payload] >>

\* ------------------------------------------------------------- RoomRegistry
\* The loop without its try/catch: the first send that throws ends the loop.
BroadcastLoopAbort(members, data, exclude, fail) ==
    LET targets == SelectSeq(members, LAMBDA c : c # exclude)
        bad     == { i \in 1..Len(targets) : targets[i] \in fail }
        stop    == IF bad = {} THEN Len(targets)
                   ELSE CHOOSE i \in bad : \A j \in bad : i <= j
    IN  [i \in 1..stop |-> Attempt(targets[i], data, fail)]

\* The for loop of broadcastToRoom with its try/catch: one send attempt per
\* member other than exclude, in Set order, whatever the earlier sends did.
BroadcastLoop(members, data, exclude, fail) ==
    LET targets == SelectSeq(members, LAMBDA c : c # exclude)
    IN  [i \in 1..Len(targets) |-> Attempt(targets[i], data, fail)]

\* broadcastToRoom: the sends and the relay publishes it makes.
broadcastToRoom(rs, roomName, data, exclude, fromRedis, fail) ==
    IF roomName \notin DOMAIN rs
    THEN [sends |-> <<>>, pubs |-> <<>>]
    ELSE [ sends |-> BroadcastLoop(rs[roomName], data, exclude, fail),
           pubs  |-> IF redisEnabled /\ ~fromRedis
                     THEN publishBroadcast(roomName, data) ELSE <<>> ]

\* Set.add on a sequence that keeps insertion order.
SetAdd(s, x) == IF x \in Range(s) THEN s ELSE Append(s, x)

\* A joinRoom that adds the connection to the room and leaves clientRooms alone.
joinRoomOneSided(rs, cr, ws, roomName, username, fail) ==
    LET rs1 == IF roomName \in DOMAIN rs THEN rs ELSE MapPut(rs, roomName, <<>>)
        rs2 == [rs1 EXCEPT ![roomName] = SetAdd(@, ws)]
    IN  [rooms |-> rs2, clientRooms |-> cr, sends |-> <<>>, pubs |-> <<>>]

\* joinRoom: the new rooms and clientRooms, the sends and the publishes.
joinRoom(rs, cr, ws, roomName, username, fail) ==
    LET rs1 == IF roomName \in DOMAIN rs THEN rs ELSE MapPut(rs, roomName, <<>>)
        rs2 == [rs1 EXCEPT ![roomName] = SetAdd(@, ws)]
        cr2 == [cr EXCEPT ![ws] = SetAdd(@, roomName)]
        b   == broadcastToRoom(rs2, roomName,
                   [Ev EXCEPT !.type = "user_joined", !.username = username,
                              !.room = roomName, !.userCount = Len(rs2[roomName])],
                   ws, FALSE, fail)
    IN  [rooms |-> rs2, clientRooms |-> cr2, sends |-> b.sends, pubs |-> b.pubs]

\* leaveRoom without the deletion of the room that became empty.
leaveRoomKeepsEmpty(rs, cr, cd, ws, roomName, fail) ==
    IF roomName \notin DOMAIN rs
    THEN [rooms |-> rs, clientRooms |-> cr, sends |-> <<>>, pubs |-> <<>>]
    ELSE [rooms |-> [rs EXCEPT ![roomName] = Remove(@, ws)],
          clientRooms |-> [cr EXCEPT ![ws] = Remove(@, roomName)],
          sends |-> <<>>, pubs |-> <<>>]

\* leaveRoom
leaveRoom(rs, cr, cd, ws, roomName, fail) ==
    IF roomName \notin DOMAIN rs
    THEN [rooms |-> rs, clientRooms |-> cr, sends |-> <<>>, pubs |-> <<>>]
    ELSE
    LET clients  == Remove(rs[roomName], ws)
        cr2      == [cr EXCEPT ![ws] = Remove(@, roomName)]
        username == IF cd[ws] # NoData THEN cd[ws].username ELSE "Anonymous"
        rs2      == [rs EXCEPT ![roomName] = clients]
        b        == broadcastToRoom(rs2, roomName,
                       [Ev EXCEPT !.type = "user_left", !.username = username,
                                  !.room = roomName, !.userCount = Len(clients)],
                       NoConn, FALSE, fail)
    IN  IF Len(clients) = 0
        THEN [rooms |-> MapDel(rs, roomName), clientRooms |-> cr2,
              sends |-> <<>>, pubs |-> <<>>]
        ELSE [rooms |-> rs2, clientRooms |-> cr2, sends |-> b.sends, pubs |-> b.pubs]

\* getOnlineUsers: the usernames of the members that have clientData, in Set order.
getOnlineUsers(rs, cd, roomName) ==
    IF roomName \notin DOMAIN rs THEN <<>>
    ELSE LET withData == SelectSeq(rs[roomName], LAMBDA c : cd[c] # NoData)
         IN  [i \in 1..Len(withData) |-> cd[withData[i]].username]

\* getRoomList
getRoomList(rs) == { [name |-> r, userCount |-> Len(rs[r])] : r \in DOMAIN rs }

\* setTyping that broadcasts the change (a delta), not the room's typing set.
setTypingDelta(rs, ty, roomName, username, isTyping, fail) ==
    LET ty1        == IF roomName \in DOMAIN ty THEN ty ELSE MapPut(ty, roomName, {})
        roomTyping == IF isTyping THEN ty1[roomName] \cup {username}
                                  ELSE ty1[roomName] \ {username}
        b          == broadcastToRoom(rs, roomName,
                         [Ev EXCEPT !.type = "typing", !.room = roomName,
                                    !.typing = IF isTyping THEN {username} ELSE {}],
                         NoConn, FALSE, fail)
    IN  [typing |-> [ty1 EXCEPT ![roomName] = roomTyping],
         sends |-> b.sends, pubs |-> b.pubs]

\* setTyping: the new typing sets, the sends and the publishes.
setTyping(rs, ty, roomName, username, isTyping, fail) ==
    LET ty1        == IF roomName \in DOMAIN ty THEN ty ELSE MapPut(ty, roomName, {})
        roomTyping == IF isTyping THEN ty1[roomName] \cup {username}
                                  ELSE ty1[roomName] \ {username}
        b          == broadcastToRoom(rs, roomName,
                         [Ev EXCEPT !.type = "typing", !.room = roomName,
                                    !.typing = roomTyping],
                         NoConn, FALSE, fail)
    IN  [typing |-> [ty1 EXCEPT ![roomName] = roomTyping],
         sends |-> b.sends, pubs |-> b.pubs]

\* A close that leaves the connection in its rooms.
closeRoomsSkipped(rs, cr, cd, ws, todo, fail) ==
    [rooms |-> rs, clientRooms |-> cr, sends |-> <<>>, pubs |-> <<>>]

\* websocket.close: leaveRoom for every room of the connection, in Set order.
RECURSIVE closeRooms(_, _, _, _, _, _)
closeRooms(rs, cr, cd, ws, todo, fail) ==
    IF todo = <<>>
    THEN [rooms |-> rs, clientRooms |-> cr, sends |-> <<>>, pubs |-> <<>>]
    ELSE LET one  == leaveRoom(rs, cr, cd, ws, Head(todo), fail)
             rest == closeRooms(one.rooms, one.clientRooms, cd, ws, Tail(todo), fail)
         IN  [rooms |-> rest.rooms, clientRooms |-> rest.clientRooms,
              sends |-> one.sends \o rest.sends, pubs |-> one.pubs \o rest.pubs]

\* ------------------------------------------------------------- validation
\* security.ts validators on the sample strings: the regular expressions
\* reject the empty string and a string with a character outside the class.
isValidUserId(userId) == userId \notin BadStrings
isValidRoomName(roomName) == roomName \notin BadStrings
isValidUsername(username) == username \notin BadStrings

\* An error reply.
Error(message) == [Ev EXCEPT !.type = "error", !.status = message]

\* --------------------------------------------------------------- the state
\* The state when the server starts to accept connections: the maps are
\* empty; initRedis and initMessageQueue have set the two flags; the
\* blocked_users table is what earlier runs left.
Start(redis, rabbit, blockedTables) ==
    /\ rooms = EmptyMap
    /\ clientRooms = [c \in Conn |-> <<>>]
    /\ clientData = [c \in Conn |-> NoData]
    /\ userIdToSocket = EmptyMap
    /\ typingUsers = EmptyMap
    /\ status = [c \in Conn |-> "idle"]
    /\ store = <<>>
    /\ blocked \in blockedTables
    /\ tasks = <<>>
    /\ rl = EmptyMap
    /\ unswept = EmptyMap
    /\ now = 0
    /\ redisEnabled = redis
    /\ useRabbitMQ = rabbit
    /\ relay = <<>>
    /\ sent = <<>>
    /\ last = Step

\* No relay, no queue, nobody blocked.
Init == Start(FALSE, FALSE, {{}})

\* The number of frames the key of ws has submitted in the current window.
Frames(ws) == IF identifier(ws) \in DOMAIN rl THEN rl[identifier(ws)].count ELSE 0
\* A frame can arrive on ws.
CanSubmit(ws) == status[ws] = "open" /\ Frames(ws) < MaxFrames
\* The rate-limit gate at the head of websocket.message.
Gate(ws) == rateLimitWebSocket(rl, identifier(ws), now)
\* The frame passes the gate.
Admit(ws) ==
    /\ CanSubmit(ws) /\ Gate(ws).allowed /\ rl' = Gate(ws).store
    /\ unswept' = rateLimitWebSocket(unswept, identifier(ws), now).store

\* The variables that only the named groups of handlers change.
roomVars == << rooms, clientRooms >>
presenceVars == << clientData, userIdToSocket >>
envVars == << now, redisEnabled, useRabbitMQ, blocked >>

\* Connections are accepted in the order c1, c2, c3.
Earlier(c, d) == <<c, d>> \in { <<"c1", "c2">>, <<"c1", "c3">>, <<"c2", "c3">> }

\* websocket.open (no token): the connection is accepted.
Open(ws) ==
    /\ status[ws] = "idle"
    /\ \A c \in Conn : Earlier(c, ws) => status[c] # "idle"
    /\ status' = [status EXCEPT ![ws] = "open"]
    /\ sent' = <<>>
    /\ last' = [Step EXCEPT !.op = "open", !.ws = ws]
    /\ UNCHANGED << roomVars, presenceVars, typingUsers, store, tasks, rl, unswept, relay, envVars >>

\* websocket.message, rate limit exceeded: the error reply and nothing else.
RateLimited(ws, fail) ==
    /\ CanSubmit(ws)
    /\ ~Gate(ws).allowed
    /\ rl' = Gate(ws).store
    /\ unswept' = rateLimitWebSocket(unswept, identifier(ws), now).store
    /\ sent' = << Attempt(ws, [Error("Rate limit exceeded") EXCEPT
                                 !.remaining = Gate(ws).remaining,
                                 !.resetAt = Gate(ws).resetAt], fail) >>
    /\ last' = [Step EXCEPT !.op = "rate_limited", !.ws = ws, !.threw = ws \in fail]
    /\ UNCHANGED << roomVars, presenceVars, typingUsers, status, store, tasks, relay, envVars >>

\* websocket.message, JSON.parse throws.
InvalidJSON(ws, fail) ==
    /\ Admit(ws)
    /\ sent' = << Attempt(ws, Error("Invalid JSON"), fail) >>
    /\ last' = [Step EXCEPT !.op = "invalid_json", !.ws = ws, !.threw = ws \in fail]
    /\ UNCHANGED << roomVars, presenceVars, typingUsers, status, store, tasks, relay, envVars >>

\* websocket.message, the frame parses to a value that is not an object: for
\* null the read of data.type throws out of the handler; for a number or a
\* string data.type is undefined, no branch matches and the handler returns.
NotAnObject(ws, isNull) ==
    /\ Admit(ws)
    /\ sent' = <<>>
    /\ last' = [Step EXCEPT !.op = "not_an_object", !.ws = ws, !.flag = isNull,
                            !.threw = isNull]
    /\ UNCHANGED << roomVars, presenceVars, typingUsers, status, store, tasks, relay, envVars >>

\* A suspended handler; the fields a handler does not use stay at these values.
Task == [ pc |-> "", ws |-> NoConn, userId |-> "", username |-> "", room |-> "",
          peer |-> "", sock |-> NoConn, id |-> 0, pend |-> <<>>, users |-> <<>>,
          ids |-> <<>>, n |-> 0, seq |-> 0 ]

\* A registration that keeps the connection already registered for the userId.
registerIfAbsent(m, userId, ws) == IF userId \in DOMAIN m THEN m ELSE MapPut(m, userId, ws)

\* userIdToSocket.set(userId, ws): the entry of the userId is overwritten.
register(m, userId, ws) == MapPut(m, userId, ws)

\* websocket.message, type join, up to the first await.
JoinUpTo(cap, ws, ident, roomName, fail) ==
    /\ Admit(ws)
    /\ IF ~isValidUsername(ident.username) \/ ~isValidRoomName(roomName)
          \/ ~isValidUserId(ident.userId)
       THEN /\ sent' = << Attempt(ws, Error("Invalid format"), fail) >>
            /\ last' = [Step EXCEPT !.op = "join_invalid", !.ws = ws, !.threw = ws \in fail]
            /\ UNCHANGED << roomVars, presenceVars, tasks, relay >>
       ELSE LET j == joinRoom(rooms, clientRooms, ws, roomName, ident.username, fail)
            IN  /\ Len(tasks) < cap
                /\ clientData' = [clientData EXCEPT ![ws] = ident]
                /\ userIdToSocket' = register(userIdToSocket, ident.userId, ws)
                /\ rooms' = j.rooms
                /\ clientRooms' = j.clientRooms
                /\ sent' = j.sends
                /\ relay' = relay \o j.pubs
                /\ tasks' = Append(tasks, [Task EXCEPT !.pc = "join_history", !.ws = ws,
                                  !.userId = ident.userId, !.username = ident.username,
                                  !.room = roomName])
                /\ last' = [Step EXCEPT !.op = "join", !.ws = ws, !.room = roomName,
                                  !.userId = ident.userId, !.username = ident.username,
                                  !.was = IsMember(rooms, roomName, ws)]
    /\ UNCHANGED << typingUsers, status, store, envVars >>

\* The handler of this model's other specifications: one handler suspended at a time.
Join(ws, ident, roomName, fail) == JoinUpTo(MaxTasks, ws, ident, roomName, fail)

\* websocket.message, type leave.
Leave(ws, roomName, fail) ==
    /\ Admit(ws)
    /\ LET l == leaveRoom(rooms, clientRooms, clientData, ws, roomName, fail)
       IN  /\ rooms' = l.rooms
           /\ clientRooms' = l.clientRooms
           /\ sent' = l.sends \o << Attempt(ws, [Ev EXCEPT !.type = "left", !.room = roomName], fail) >>
           /\ relay' = relay \o l.pubs
    /\ last' = [Step EXCEPT !.op = "leave", !.ws = ws, !.room = roomName,
                            !.was = IsMember(rooms, roomName, ws), !.threw = ws \in fail]
    /\ UNCHANGED << presenceVars, typingUsers, status, store, tasks, envVars >>

\* websocket.close
Close(ws, fail) ==
    /\ status[ws] = "open"
    /\ LET c == closeRooms(rooms, clientRooms, clientData, ws, clientRooms[ws], fail)
       IN  /\ rooms' = c.rooms
           /\ clientRooms' = c.clientRooms
           /\ sent' = c.sends
           /\ relay' = relay \o c.pubs
    /\ userIdToSocket' = IF clientData[ws] # NoData
                         THEN MapDel(userIdToSocket, clientData[ws].userId)
                         ELSE userIdToSocket
    /\ status' = [status EXCEPT ![ws] = "closed"]
    /\ last' = [Step EXCEPT !.op = "close", !.ws = ws]
    /\ UNCHANGED << clientData, typingUsers, store, tasks, rl, unswept, envVars >>

\* ---------------------------------------------------------------- the store
\* The row saveMessage inserts; delivered is true only for a text room message.
\* seq stands for the content: the ordinal of the frame that carried it.  heard
\* is a history field: the connections the row's broadcast was sent to; so is
\* failed: the sender of the dm was sent an error reply for it.
NewRow(st, senderId, username, roomName, recipientId) ==
    [ id |-> Len(st) + 1, senderId |-> senderId, username |-> username,
      roomName |-> roomName, recipientId |-> recipientId,
      delivered |-> (recipientId = ""), seq |-> 0, heard |-> {}, failed |-> FALSE ]

\* MessageManager.markDelivered
markDelivered(st, messageId) ==
    [i \in 1..Len(st) |-> IF st[i].id = messageId
                          THEN [st[i] EXCEPT !.delivered = TRUE] ELSE st[i]]

\* A set of row ids as a sequence, largest first (ORDER BY created_at DESC).
RECURSIVE Descending(_)
Descending(S) ==
    IF S = {} THEN <<>>
    ELSE LET m == CHOOSE x \in S : \A y \in S : y <= x
         IN  << m >> \o Descending(S \ {m})

\* getMessages({recipientId}) filtered by !delivered: the ids of the pending rows.
pendingDMs(st, userId) ==
    Descending({ i \in 1..Len(st) : st[i].recipientId = userId /\ ~st[i].delivered })

\* A lookup that finds nobody.
lookupNobody(m, userId) == NoConn

\* userIdToSocket.get(userId)
lookup(m, userId) == IF userId \in DOMAIN m THEN m[userId] ELSE NoConn

\* UserManager.isBlocked: the answer of the query, and false when the query
\* throws (answered is false).
isBlocked(userId, targetId, answered) ==
    /\ answered
    /\ <<userId, targetId>> \in blocked \/ <<targetId, userId>> \in blocked

\* -------------------------------------------------------- suspended handlers
RemoveAt(s, i) == SubSeq(s, 1, i - 1) \o SubSeq(s, i + 1, Len(s))
\* The handlers that have yet to insert a row.
Saving == { i \in 1..Len(tasks) : tasks[i].pc \in {"dm_blocked", "dm_save", "msg_save", "group_save"} }
\* A handler that will insert a row can start.
CanStartSaveUpTo(cap) == Len(tasks) < cap /\ Len(store) + Cardinality(Saving) < MaxStore
CanStartSave == CanStartSaveUpTo(MaxTasks)

\* type join, after await getMessages(history): getOnlineUsers runs, the
\* query for the pending messages is issued.
JoinHistory(i) ==
    /\ i \in 1..Len(tasks)
    /\ tasks[i].pc = "join_history"
    /\ tasks' = [tasks EXCEPT ![i] = [@ EXCEPT !.pc = "join_pending",
                     !.users = getOnlineUsers(rooms, clientData, tasks[i].room)]]
    /\ sent' = <<>>
    /\ last' = [Step EXCEPT !.op = "join_history", !.ws = tasks[i].ws]
    /\ UNCHANGED << roomVars, presenceVars, typingUsers, status, store, rl, unswept, relay, envVars >>

\* The dm or group_message event of a pending row.
PendingEvent(row) ==
    [Ev EXCEPT !.type = "dm", !.id = row.id, !.peer = row.senderId, !.offline = TRUE]

\* type join, after await getMessages(pending): the joined reply and the first
\* pending message, up to await markDelivered.
JoinPending(i, fail) ==
    /\ i \in 1..Len(tasks)
    /\ tasks[i].pc = "join_pending"
    /\ LET t      == tasks[i]
           pend   == pendingDMs(store, t.userId)
           joined == Attempt(t.ws, [Ev EXCEPT !.type = "joined", !.room = t.room,
                                      !.users = t.users, !.peer = t.userId,
                                      !.userCount = Len(pend)], fail)
       IN  /\ sent' = IF joined.ok /\ pend # <<>>
                      THEN << joined, Attempt(t.ws, PendingEvent(store[pend[1]]), fail) >>
                      ELSE << joined >>
           /\ tasks' = IF joined.ok /\ pend # <<>>
                       THEN [tasks EXCEPT ![i] = [@ EXCEPT !.pc = "join_mark", !.pend = pend]]
                       ELSE RemoveAt(tasks, i)
           /\ last' = [Step EXCEPT !.op = "join_pending", !.ws = t.ws, !.userId = t.userId]
    /\ UNCHANGED << roomVars, presenceVars, typingUsers, status, store, rl, unswept, relay, envVars >>

\* type join, after await markDelivered: the row is marked, the next pending
\* message is sent.
JoinMark(i, fail) ==
    /\ i \in 1..Len(tasks)
    /\ tasks[i].pc = "join_mark"
    /\ LET t    == tasks[i]
           rest == Tail(t.pend)
       IN  /\ store' = markDelivered(store, Head(t.pend))
           /\ sent' = IF rest # <<>>
                      THEN << Attempt(t.ws, PendingEvent(store[rest[1]]), fail) >>
                      ELSE <<>>
           /\ tasks' = IF rest # <<>> /\ t.ws \notin fail
                       THEN [tasks EXCEPT ![i] = [@ EXCEPT !.pend = rest]]
                       ELSE RemoveAt(tasks, i)
           /\ last' = [Step EXCEPT !.op = "join_mark", !.ws = t.ws, !.id = Head(t.pend)]
    /\ UNCHANGED << roomVars, presenceVars, typingUsers, status, rl, unswept, relay, envVars >>

\* websocket.message, type message, up to await saveMessage.
MessageUpTo(cap, ws, roomName, hasContent, fail) ==
    /\ Admit(ws)
    /\ IF clientData[ws] = NoData \/ ~hasContent \/ ~isValidRoomName(roomName)
       THEN /\ sent' = << Attempt(ws, Error(IF clientData[ws] = NoData
                                             THEN "Not authenticated"
                                             ELSE IF ~hasContent THEN "Content required"
                                             ELSE "Invalid room name"), fail) >>
            /\ last' = [Step EXCEPT !.op = "message_rejected", !.ws = ws, !.threw = ws \in fail]
            /\ UNCHANGED tasks
       ELSE /\ CanStartSaveUpTo(cap)
            /\ sent' = <<>>
            /\ tasks' = Append(tasks, [Task EXCEPT !.pc = "msg_save", !.ws = ws,
                              !.userId = clientData[ws].userId,
                              !.username = clientData[ws].username, !.room = roomName,
                              !.seq = rl'[identifier(ws)].count])
            /\ last' = [Step EXCEPT !.op = "message", !.ws = ws, !.room = roomName]
    /\ UNCHANGED << roomVars, presenceVars, typingUsers, status, store, relay, envVars >>

\* The handler of this model's other specifications: one handler suspended at a time.
Message(ws, roomName, hasContent, fail) == MessageUpTo(MaxTasks, ws, roomName, hasContent, fail)

\* A handler that broadcasts the message whether or not the save succeeded.
MessageSendsBroadcastFirst(saved, broadcast, reply) ==
    IF saved THEN broadcast ELSE broadcast \o << reply >>

\* The sends of the try block of type message and of its catch: the broadcast
\* follows the save inside the try, the catch sends the error reply.
MessageSends(saved, broadcast, reply) ==
    IF saved THEN broadcast ELSE << reply >>

\* type message, after await saveMessage: the broadcast, or the error reply.
MessageSaved(i, saved, fail) ==
    /\ i \in 1..Len(tasks)
    /\ tasks[i].pc = "msg_save"
    /\ LET t   == tasks[i]
           new == NewRow(store, t.userId, t.username, t.room, "")
           b   == broadcastToRoom(rooms, t.room,
                      [Ev EXCEPT !.type = "message", !.id = new.id, !.room = t.room,
                                 !.username = t.username, !.peer = t.userId,
                                 !.seq = t.seq],
                      NoConn, FALSE, fail)
           row == [new EXCEPT !.seq = t.seq,
                       !.heard = { b.sends[k].to : k \in { n \in DOMAIN b.sends : b.sends[n].ok } }]
       IN  IF saved
           THEN /\ store' = Append(store, row)
                /\ sent' = MessageSends(TRUE, b.sends, <<>>)
                /\ relay' = relay \o b.pubs
                /\ last' = [Step EXCEPT !.op = "message_saved", !.ws = t.ws,
                                        !.room = t.room, !.id = row.id]
           ELSE /\ sent' = MessageSends(FALSE, b.sends,
                                        Attempt(t.ws, Error("Failed to save message"), fail))
                /\ last' = [Step EXCEPT !.op = "message_failed", !.ws = t.ws,
                                        !.room = t.room, !.threw = t.ws \in fail]
                /\ UNCHANGED << store, relay >>
    /\ tasks' = RemoveAt(tasks, i)
    /\ UNCHANGED << roomVars, presenceVars, typingUsers, status, rl, unswept, envVars >>

\* The recipient ids a dm frame may carry: the known users and a malformed id.
RecipientIds == UserIds \cup {"bad id!"}

\* websocket.message, type dm, up to await isBlocked.
DmUpTo(cap, ws, recipientId, hasContent, fail) ==
    /\ Admit(ws)
    /\ IF clientData[ws] = NoData \/ ~isValidUserId(recipientId) \/ ~hasContent
       THEN /\ sent' = << Attempt(ws, Error(IF clientData[ws] = NoData
                                             THEN "Not authenticated"
                                             ELSE IF ~isValidUserId(recipientId)
                                             THEN "Invalid recipientId format"
                                             ELSE "recipientId and content required"), fail) >>
            /\ last' = [Step EXCEPT !.op = "dm_rejected", !.ws = ws, !.threw = ws \in fail]
            /\ UNCHANGED tasks
       ELSE /\ CanStartSaveUpTo(cap)
            /\ sent' = <<>>
            /\ tasks' = Append(tasks, [Task EXCEPT !.pc = "dm_blocked", !.ws = ws,
                              !.userId = clientData[ws].userId,
                              !.username = clientData[ws].username, !.peer = recipientId])
            /\ last' = [Step EXCEPT !.op = "dm", !.ws = ws, !.peer = recipientId]
    /\ UNCHANGED << roomVars, presenceVars, typingUsers, status, store, relay, envVars >>

\* The handler of this model's other specifications: one handler suspended at a time.
Dm(ws, recipientId, hasContent, fail) == DmUpTo(MaxTasks, ws, recipientId, hasContent, fail)

\* type dm, after await isBlocked: the block check, the presence lookup, and
\* the call of saveMessage.
DmBlocked(i, answered, fail) ==
    /\ i \in 1..Len(tasks)
    /\ tasks[i].pc = "dm_blocked"
    /\ LET t == tasks[i]
       IN  IF isBlocked(t.userId, t.peer, answered)
           THEN /\ sent' = << Attempt(t.ws, Error("Cannot send message to this user"), fail) >>
                /\ tasks' = RemoveAt(tasks, i)
                /\ last' = [Step EXCEPT !.op = "dm_is_blocked", !.ws = t.ws, !.peer = t.peer,
                                        !.userId = t.userId, !.threw = t.ws \in fail]
           ELSE /\ sent' = <<>>
                /\ tasks' = [tasks EXCEPT ![i] = [@ EXCEPT !.pc = "dm_save",
                                !.sock = lookup(userIdToSocket, t.peer)]]
                /\ last' = [Step EXCEPT !.op = "dm_lookup", !.ws = t.ws, !.peer = t.peer,
                                        !.sock = lookup(userIdToSocket, t.peer),
                                        !.userId = t.userId, !.flag = answered]
    /\ UNCHANGED << roomVars, presenceVars, typingUsers, status, store, rl, unswept, relay, envVars >>

\* The dm_sent acknowledgment.
DmSent(t, id, st) ==
    [Ev EXCEPT !.type = "dm_sent", !.peer = t.peer, !.status = st, !.id = id]

\* A live send whose throw is swallowed: the handler goes on to the acknowledgment.
DmLiveSwallowsThrow(t, row, fail) ==
    [ sends |-> << Attempt(t.sock, [Ev EXCEPT !.type = "dm", !.id = row.id,
                                      !.peer = t.userId, !.username = t.username], fail) >>,
      ok    |-> TRUE,
      threw |-> FALSE ]

\* The live send of a dm inside the try block: when recipientSocket.send
\* throws, the rest of the block is skipped and the catch sends the error reply.
DmLive(t, row, fail) ==
    LET live == Attempt(t.sock, [Ev EXCEPT !.type = "dm", !.id = row.id,
                                   !.peer = t.userId, !.username = t.username], fail)
        fl   == Attempt(t.ws, Error("Failed to send DM"), fail)
    IN  [ sends |-> IF live.ok THEN << live >> ELSE << live, fl >>,
          ok    |-> live.ok,
          threw |-> ~live.ok /\ ~fl.ok ]

\* An offline path that acknowledges before it hands the message to the queue.
DmOfflineAcksFirst(t, row, queued, fail) ==
    LET fl  == Attempt(t.ws, Error("Failed to send DM"), fail)
        off == Attempt(t.ws, DmSent(t, row.id, "offline"), fail)
    IN  IF off.ok /\ ~(useRabbitMQ /\ ~queued) THEN << off >> ELSE << off, fl >>

\* The offline path inside the try block: the queue hand-off, then the
\* dm_sent reply; a throw of either ends in the catch's error reply.
DmOffline(t, row, queued, fail) ==
    LET fl  == Attempt(t.ws, Error("Failed to send DM"), fail)
        off == Attempt(t.ws, DmSent(t, row.id, "offline"), fail)
    IN  IF useRabbitMQ /\ ~queued THEN << fl >>
        ELSE IF off.ok THEN << off >> ELSE << off, fl >>

\* type dm, after await saveMessage: the offline path (with the queue
\* hand-off, which has no await of its own), or the live send up to await
\* markDelivered; a throw in the try block ends in the catch's error reply.
DmSaved(i, saved, queued, fail) ==
    /\ i \in 1..Len(tasks)
    /\ tasks[i].pc = "dm_save"
    /\ LET t    == tasks[i]
           row  == NewRow(store, t.userId, t.username, "", t.peer)
           fl   == Attempt(t.ws, Error("Failed to send DM"), fail)
           live == DmLive(t, row, fail)
           out  == IF t.sock = NoConn THEN DmOffline(t, row, queued, fail) ELSE live.sends
       IN  /\ store' = IF saved
                       THEN Append(store, [row EXCEPT !.failed =
                                \E k \in DOMAIN out : out[k].ev.type = "error"])
                       ELSE store
           /\ IF ~saved
              THEN /\ sent' = << fl >>
                   /\ tasks' = RemoveAt(tasks, i)
                   /\ last' = [Step EXCEPT !.op = "dm_failed", !.ws = t.ws, !.peer = t.peer,
                                           !.threw = ~fl.ok]
              ELSE IF t.sock = NoConn
              THEN /\ sent' = DmOffline(t, row, queued, fail)
                   /\ tasks' = RemoveAt(tasks, i)
                   /\ last' = [Step EXCEPT !.op = "dm_offline", !.ws = t.ws, !.peer = t.peer,
                                 !.id = row.id, !.sock = t.sock, !.flag = ~useRabbitMQ \/ queued,
                                 !.threw = ~fl.ok]
              ELSE /\ sent' = live.sends
                   /\ tasks' = IF live.ok
                               THEN [tasks EXCEPT ![i] = [@ EXCEPT !.pc = "dm_mark", !.id = row.id]]
                               ELSE RemoveAt(tasks, i)
                   /\ last' = [Step EXCEPT !.op = "dm_live", !.ws = t.ws, !.peer = t.peer,
                                 !.id = row.id, !.sock = t.sock, !.flag = live.ok,
                                 !.threw = live.threw]
    /\ UNCHANGED << roomVars, presenceVars, typingUsers, status, rl, unswept, relay, envVars >>

\* type dm, after await markDelivered: the delivered acknowledgment.
DmMarked(i, fail) ==
    /\ i \in 1..Len(tasks)
    /\ tasks[i].pc = "dm_mark"
    /\ LET t   == tasks[i]
           ack == Attempt(t.ws, DmSent(t, t.id, "delivered"), fail)
       IN  /\ store' = [markDelivered(store, t.id) EXCEPT ![t.id].failed = ~ack.ok]
           /\ sent' = IF ack.ok THEN << ack >>
                      ELSE << ack, Attempt(t.ws, Error("Failed to send DM"), fail) >>
           /\ last' = [Step EXCEPT !.op = "dm_marked", !.ws = t.ws, !.peer = t.peer,
                                   !.id = t.id, !.sock = t.sock, !.threw = ~ack.ok]
    /\ tasks' = RemoveAt(tasks, i)
    /\ UNCHANGED << roomVars, presenceVars, typingUsers, status, rl, unswept, relay, envVars >>

\* websocket.message, type typing.
Typing(ws, roomName, isTyping, fail) ==
    /\ Admit(ws)
    /\ IF clientData[ws] = NoData
       THEN /\ sent' = <<>>
            /\ last' = [Step EXCEPT !.op = "typing_ignored", !.ws = ws]
            /\ UNCHANGED << typingUsers, relay >>
       ELSE LET s == setTyping(rooms, typingUsers, roomName, clientData[ws].username,
                               isTyping, fail)
            IN  /\ typingUsers' = s.typing
                /\ sent' = s.sends
                /\ relay' = relay \o s.pubs
                /\ last' = [Step EXCEPT !.op = "typing", !.ws = ws, !.room = roomName,
                              !.username = clientData[ws].username, !.flag = isTyping,
                              !.was = roomName \in DOMAIN typingUsers
                                      /\ clientData[ws].username \in typingUsers[roomName]]
    /\ UNCHANGED << roomVars, presenceVars, status, store, tasks, envVars >>

\* websocket.message, type get_rooms.
GetRooms(ws, fail) ==
    /\ Admit(ws)
    /\ sent' = << Attempt(ws, [Ev EXCEPT !.type = "room_list",
                                 !.roomList = getRoomList(rooms)], fail) >>
    /\ last' = [Step EXCEPT !.op = "get_rooms", !.ws = ws, !.threw = ws \in fail]
    /\ UNCHANGED << roomVars, presenceVars, typingUsers, status, store, tasks, relay, envVars >>

\* websocket.message, type get_users.
GetUsers(ws, roomName, fail) ==
    /\ Admit(ws)
    /\ sent' = << Attempt(ws, [Ev EXCEPT !.type = "user_list", !.room = roomName,
                                 !.users = getOnlineUsers(rooms, clientData, roomName)], fail) >>
    /\ last' = [Step EXCEPT !.op = "get_users", !.ws = ws, !.room = roomName,
                            !.threw = ws \in fail]
    /\ UNCHANGED << roomVars, presenceVars, typingUsers, status, store, tasks, relay, envVars >>

\* websocket.message, type signal.
Signal(ws, to, payloadOk, fail) ==
    /\ Admit(ws)
    /\ IF clientData[ws] = NoData \/ ~isValidUserId(to) \/ ~payloadOk
       THEN /\ sent' = << Attempt(ws, Error(IF clientData[ws] = NoData
                                             THEN "Not authenticated"
                                             ELSE IF ~isValidUserId(to)
                                             THEN "Invalid recipientId format"
                                             ELSE "Missing signal payload"), fail) >>
            /\ last' = [Step EXCEPT !.op = "signal_rejected", !.ws = ws, !.threw = ws \in fail]
            /\ UNCHANGED relay
       ELSE IF lookup(userIdToSocket, to) = NoConn
       THEN IF redisEnabled
            THEN /\ relay' = relay \o publishSignal(to, "payload")
                 /\ sent' = << Attempt(ws, [Ev EXCEPT !.type = "signal_sent", !.peer = to,
                                              !.status = "redis"], fail) >>
                 /\ last' = [Step EXCEPT !.op = "signal_relayed", !.ws = ws, !.peer = to,
                                         !.threw = ws \in fail]
            ELSE /\ sent' = << Attempt(ws, Error("Recipient not connected"), fail) >>
                 /\ last' = [Step EXCEPT !.op = "signal_unreachable", !.ws = ws, !.peer = to,
                                         !.threw = ws \in fail]
                 /\ UNCHANGED relay
       ELSE LET sock == lookup(userIdToSocket, to)
                fw   == Attempt(sock, [Ev EXCEPT !.type = "signal",
                                         !.peer = clientData[ws].userId], fail)
                ack  == Attempt(ws, [Ev EXCEPT !.type = "signal_sent", !.peer = to], fail)
                fl   == Attempt(ws, Error("Failed to forward signal"), fail)
            IN  /\ sent' = IF ~fw.ok THEN << fw, fl >>
                           ELSE IF ~ack.ok THEN << fw, ack, fl >>
                           ELSE << fw, ack >>
                /\ last' = [Step EXCEPT !.op = "signal_local", !.ws = ws, !.peer = to,
                                        !.sock = sock, !.flag = fw.ok, !.threw = ~fl.ok]
                /\ UNCHANGED relay
    /\ UNCHANGED << roomVars, presenceVars, typingUsers, status, store, tasks, envVars >>

\* ------------------------------------------- group_message (server.ts)
\* server.ts keeps the same clientData and userIdToSocket maps and registers
\* presence in join as the enhanced server does (server.ts:405-406); its
\* message callback has no rate-limit gate.
\* The recipient lists a group_message frame may carry.
RecipientLists == { <<>>, <<"u1", "u2">>, <<"u2", "u1">> }

\* recipientIds.join(",")
joinIds(ids) ==
    CASE ids = <<"u1", "u2">> -> "u1,u2"
      [] ids = <<"u2", "u1">> -> "u2,u1"
      [] Len(ids) = 1 -> ids[1]
      [] OTHER -> ""

\* The loop over recipientIds from one await to the next: it stops when a send
\* throws (threw), when it awaits queueOfflineMessage (waits), or at the end.
RECURSIVE GroupLoop(_, _, _, _)
GroupLoop(ids, m, ev, fail) ==
    IF ids = <<>>
    THEN [sends |-> <<>>, n |-> 0, offline |-> <<>>, rest |-> <<>>,
          threw |-> FALSE, waits |-> FALSE]
    ELSE IF lookup(m, Head(ids)) # NoConn
    THEN LET a == Attempt(lookup(m, Head(ids)), ev, fail)
             r == GroupLoop(Tail(ids), m, ev, fail)
         IN  IF ~a.ok
             THEN [sends |-> << a >>, n |-> 0, offline |-> <<>>, rest |-> Tail(ids),
                   threw |-> TRUE, waits |-> FALSE]
             ELSE [r EXCEPT !.sends = << a >> \o @, !.n = @ + 1]
    ELSE IF useRabbitMQ
    THEN [sends |-> <<>>, n |-> 0, offline |-> << Head(ids) >>, rest |-> Tail(ids),
          threw |-> FALSE, waits |-> TRUE]
    ELSE LET r == GroupLoop(Tail(ids), m, ev, fail)
         IN  [r EXCEPT !.offline = << Head(ids) >> \o @]

\* websocket.message, type group_message, up to await saveMessage.
GroupMessage(ws, ids, hasContent, fail) ==
    /\ status[ws] = "open"
    /\ IF clientData[ws] = NoData \/ ids = <<>> \/ ~hasContent
       THEN /\ sent' = << Attempt(ws, Error(IF clientData[ws] = NoData
                                             THEN "Not authenticated"
                                             ELSE "recipientIds and content required"),
                                  fail) >>
            /\ last' = [Step EXCEPT !.op = "group_rejected", !.ws = ws, !.threw = ws \in fail]
            /\ UNCHANGED tasks
       ELSE /\ CanStartSave
            /\ sent' = <<>>
            /\ tasks' = Append(tasks, [Task EXCEPT !.pc = "group_save", !.ws = ws,
                              !.userId = clientData[ws].userId,
                              !.username = clientData[ws].username, !.room = "private-group",
                              !.ids = ids, !.pend = ids])
            /\ last' = [Step EXCEPT !.op = "group_message", !.ws = ws, !.ids = ids]
    /\ UNCHANGED << roomVars, presenceVars, typingUsers, status, store, rl, unswept, relay, envVars >>

\* The fan-out of task t (its row saved) from where it stands to the next await,
\* to the throw, or to the acknowledgment.
GroupRun(i, t, fail) ==
    LET g == GroupLoop(t.pend, userIdToSocket,
                       [Ev EXCEPT !.type = "group_message", !.id = t.id, !.room = t.room,
                                  !.peer = t.userId, !.username = t.username], fail)
        n   == t.n + g.n
        off == t.users \o g.offline
    IN  IF g.threw
        THEN /\ sent' = g.sends \o
                        << Attempt(t.ws, Error("Failed to send group message"), fail) >>
             /\ tasks' = RemoveAt(tasks, i)
             /\ last' = [Step EXCEPT !.op = "group_failed", !.ws = t.ws, !.id = t.id,
                                     !.ids = t.ids, !.threw = t.ws \in fail]
        ELSE IF g.waits
        THEN /\ sent' = g.sends
             /\ tasks' = [tasks EXCEPT ![i] = [t EXCEPT !.pc = "group_queue", !.pend = g.rest,
                                                        !.n = n, !.users = off]]
             /\ last' = [Step EXCEPT !.op = "group_queueing", !.ws = t.ws, !.id = t.id,
                                     !.ids = t.ids]
        ELSE /\ sent' = g.sends \o
                        << Attempt(t.ws, [Ev EXCEPT !.type = "group_message_sent",
                                            !.id = t.id, !.room = t.room, !.sentCount = n,
                                            !.offlineCount = Len(off),
                                            !.offlineRecipients = off], fail) >>
             /\ tasks' = RemoveAt(tasks, i)
             /\ last' = [Step EXCEPT !.op = "group_sent", !.ws = t.ws, !.id = t.id,
                                     !.ids = t.ids, !.threw = t.ws \in fail]

\* type group_message, after await saveMessage.
GroupSaved(i, saved, fail) ==
    /\ i \in 1..Len(tasks)
    /\ tasks[i].pc = "group_save"
    /\ LET t   == tasks[i]
           row == NewRow(store, t.userId, t.username, t.room, joinIds(t.ids))
       IN  IF saved
           THEN /\ store' = Append(store, row)
                /\ GroupRun(i, [t EXCEPT !.id = row.id], fail)
           ELSE /\ sent' = << Attempt(t.ws, Error("Failed to send group message"), fail) >>
                /\ tasks' = RemoveAt(tasks, i)
                /\ last' = [Step EXCEPT !.op = "group_save_failed", !.ws = t.ws,
                                        !.ids = t.ids, !.threw = t.ws \in fail]
                /\ UNCHANGED store
    /\ UNCHANGED << roomVars, presenceVars, typingUsers, status, rl, unswept, relay, envVars >>

\* type group_message, after await queueOfflineMessage.
GroupQueued(i, queued, fail) ==
    /\ i \in 1..Len(tasks)
    /\ tasks[i].pc = "group_queue"
    /\ LET t == tasks[i]
       IN  IF queued
           THEN GroupRun(i, t, fail)
           ELSE /\ sent' = << Attempt(t.ws, Error("Failed to send group message"), fail) >>
                /\ tasks' = RemoveAt(tasks, i)
                /\ last' = [Step EXCEPT !.op = "group_failed", !.ws = t.ws, !.id = t.id,
                                        !.ids = t.ids, !.threw = t.ws \in fail]
    /\ UNCHANGED << roomVars, presenceVars, typingUsers, status, store, rl, unswept, relay, envVars >>

\* ------------------------------------------------------ the specification
\* The identity each connection joins with: c3 is a second connection of alice.
IdentOf(ws) == IF ws = "c2" THEN [username |-> "bob", userId |-> "u2"]
                            ELSE [username |-> "alice", userId |-> "u1"]
JoinInputs(ws) == { IdentOf(ws), [username |-> "bad id!", userId |-> "u1"] }

\* Rooms and presence: joins, leaves, closes and get_rooms on three connections.
Next ==
    \/ \E ws \in Conn : Open(ws)
    \/ \E ws \in Conn, fail \in FailSets : RateLimited(ws, fail)
    \/ \E ws \in Conn, fail \in FailSets : InvalidJSON(ws, fail)
    \/ \E ws \in Conn, isNull \in BOOLEAN : NotAnObject(ws, isNull)
    \/ \E ws \in Conn : \E ident \in JoinInputs(ws), r \in RoomNames, fail \in FailSets :
          Join(ws, ident, r, fail)
    \/ \E i \in 1..MaxTasks : JoinHistory(i)
    \/ \E i \in 1..MaxTasks, fail \in FailSets : JoinPending(i, fail)
    \/ \E ws \in Conn, r \in RoomNames, fail \in FailSets : Leave(ws, r, fail)
    \/ \E ws \in Conn, fail \in FailSets : GetRooms(ws, fail)
    \/ \E ws \in Conn, fail \in FailSets : Close(ws, fail)

Spec == Init /\ [][Next]_vars

\* Typing indicators: joins, leaves, closes and typing events on two connections.
TypingConn == {"c1", "c2"}

NextTyping ==
    \/ \E ws \in TypingConn : Open(ws)
    \/ \E ws \in TypingConn, r \in RoomNames : Join(ws, IdentOf(ws), r, {})
    \/ \E i \in 1..MaxTasks : JoinHistory(i)
    \/ \E i \in 1..MaxTasks : JoinPending(i, {})
    \/ \E ws \in TypingConn, r \in RoomNames : Leave(ws, r, {})
    \/ \E ws \in TypingConn, r \in RoomNames, b \in BOOLEAN : Typing(ws, r, b, {})
    \/ \E ws \in TypingConn : Close(ws, {})

SpecTyping == Init /\ [][NextTyping]_vars

\* Messages: room messages and direct messages with the store, in one room.
InitMsg == Start(FALSE, TRUE, { {}, {<<"u1", "u2">>} })

NextMsg ==
    \/ \E ws \in Conn : Open(ws)
    \/ \E ws \in Conn, fail \in FailSets : Join(ws, IdentOf(ws), "general", fail)
    \/ \E i \in 1..MaxTasks : JoinHistory(i)
    \/ \E i \in 1..MaxTasks, fail \in FailSets : JoinPending(i, fail)
    \/ \E i \in 1..MaxTasks, fail \in FailSets : JoinMark(i, fail)
    \/ \E ws \in Conn, c \in BOOLEAN, fail \in FailSets : Message(ws, "general", c, fail)
    \/ \E i \in 1..MaxTasks, ok \in BOOLEAN, fail \in FailSets : MessageSaved(i, ok, fail)
    \/ \E ws \in Conn, to \in RecipientIds, c \in BOOLEAN, fail \in FailSets :
          Dm(ws, to, c, fail)
    \/ \E i \in 1..MaxTasks, answered \in BOOLEAN, fail \in FailSets :
          DmBlocked(i, answered, fail)
    \/ \E i \in 1..MaxTasks, ok \in BOOLEAN, q \in BOOLEAN, fail \in FailSets :
          DmSaved(i, ok, q, fail)
    \/ \E i \in 1..MaxTasks, fail \in FailSets : DmMarked(i, fail)
    \/ \E ws \in Conn, fail \in FailSets : GetUsers(ws, "general", fail)
    \/ \E ws \in Conn, fail \in FailSets : Close(ws, fail)

SpecMsg == InitMsg /\ [][NextMsg]_vars

\* The relay: one process with the relay enabled, and the envelopes of another.
\* A subscription callback that skips no envelope.
skipNothing(envelope) == FALSE

\* An envelope of the own process is skipped.
skipSelf(envelope) == envelope.from = instanceId

\* A handler that broadcasts an envelope as if the event had started here.
redisHandlerRepublishes(msg, fail) ==
    IF msg.type = "broadcast"
    THEN broadcastToRoom(rooms, msg.room, msg.data, NoConn, FALSE, fail)
    ELSE [sends |-> <<>>, pubs |-> <<>>]

\* The handler that server.ts registers with onRedisMessage: the sends and the
\* publishes it makes.
redisHandler(msg, fail) ==
    IF msg.type = "broadcast"
    THEN broadcastToRoom(rooms, msg.room, msg.data, NoConn, TRUE, fail)
    ELSE IF msg.type = "signal" /\ lookup(userIdToSocket, msg.to) # NoConn
    THEN [sends |-> << Attempt(lookup(userIdToSocket, msg.to),
                               [Ev EXCEPT !.type = "signal", !.peer = msg.from], fail) >>,
          pubs  |-> <<>>]
    ELSE [sends |-> <<>>, pubs |-> <<>>]

\* redis.ts onRedisMessage, the "message" callback of the subscription.
OnMessage(envelope, waiting, fail) ==
    /\ redisEnabled
    /\ LET h == IF skipSelf(envelope) THEN [sends |-> <<>>, pubs |-> <<>>]
                ELSE redisHandler(envelope, fail)
       IN  /\ sent' = h.sends
           /\ relay' = waiting \o h.pubs
    /\ last' = [Step EXCEPT !.op = "redis_message", !.peer = envelope.from,
                            !.room = envelope.room, !.key = envelope.type,
                            !.userId = envelope.to,
                            !.flag = envelope.from = instanceId]
    /\ UNCHANGED << roomVars, presenceVars, typingUsers, status, store, tasks, rl, unswept, envVars >>

\* The subscription delivers the oldest envelope this process published.
RelayEcho(fail) ==
    /\ relay # <<>>
    /\ OnMessage(Head(relay), Tail(relay), fail)

\* The envelopes the other process publishes.
RemoteEnvelopes ==
    { [from |-> OtherInstance, type |-> "broadcast", room |-> r, to |-> "",
       data |-> [Ev EXCEPT !.type = "message", !.room = r, !.id = 1]] : r \in RoomNames }
    \cup { [from |-> OtherInstance, type |-> "signal", room |-> "", to |-> u,
            data |-> "offer"] : u \in UserIds }

\* The subscription delivers an envelope of the other process.
RelayRemote(envelope, fail) ==
    /\ OnMessage(envelope, relay, fail)

RelayConn == {"c1", "c2"}
InitRelay == Start(TRUE, FALSE, {{}})

NextRelay ==
    /\ \/ \E ws \in RelayConn : Open(ws)
       \/ \E ws \in RelayConn, r \in RoomNames, fail \in FailSets :
             Join(ws, IdentOf(ws), r, fail)
       \/ \E i \in 1..MaxTasks : JoinHistory(i)
       \/ \E i \in 1..MaxTasks, fail \in FailSets : JoinPending(i, fail)
       \/ \E ws \in RelayConn, r \in RoomNames, fail \in FailSets : Leave(ws, r, fail)
       \/ \E ws \in RelayConn, fail \in FailSets : Close(ws, fail)
       \/ \E fail \in FailSets : RelayEcho(fail)
       \/ \E e \in RemoteEnvelopes, fail \in FailSets : RelayRemote(e, fail)
    /\ Len(relay') <= MaxRelay

SpecRelay == InitRelay /\ [][NextRelay]_vars

\* The rate limiter alone: checks of two keys, the clock and the sweep.
Keys == { <<"ws", "10.0.0.1">>, <<"user", "u1">> }

\* One call of checkLimit.
Check(k, isWebSocket) ==
    /\ k \in DOMAIN rl /\ ~(now > rl[k].resetTime) => rl[k].count < MaxChecks
    /\ LET c == checkLimit(rl, k, isWebSocket, now)
       IN  /\ rl' = c.store
           /\ unswept' = checkLimit(unswept, k, isWebSocket, now).store
           /\ last' = [Step EXCEPT !.op = "check", !.key = k, !.was = isWebSocket,
                                   !.flag = c.allowed, !.remaining = c.remaining,
                                   !.resetAt = c.resetAt]
    /\ UNCHANGED << roomVars, presenceVars, typingUsers, status, store, tasks, relay,
                    sent, envVars >>

\* The interval timer of the constructor fires.
Cleanup ==
    /\ rl' = cleanup(rl, now)
    /\ UNCHANGED unswept
    /\ last' = [Step EXCEPT !.op = "cleanup",
                            !.id = Cardinality(DOMAIN rl \ DOMAIN cleanup(rl, now))]
    /\ UNCHANGED << roomVars, presenceVars, typingUsers, status, store, tasks, relay,
                    sent, envVars >>

\* Time passes.
Tick ==
    /\ now < MaxTime
    /\ now' = now + 1
    /\ last' = [Step EXCEPT !.op = "tick"]
    /\ UNCHANGED << roomVars, presenceVars, typingUsers, status, store, tasks, relay,
                    sent, rl, unswept, redisEnabled, useRabbitMQ, blocked >>

NextRL ==
    \/ \E k \in Keys, w \in BOOLEAN : Check(k, w)
    \/ Cleanup
    \/ Tick

SpecRL == Init /\ [][NextRL]_vars

\* Presence: two connections that may join under either identity, and close.
PresenceConn == {"c1", "c2"}

NextPresence ==
    \/ \E ws \in PresenceConn : Open(ws)
    \/ \E ws \in PresenceConn, ident \in Identities, r \in RoomNames, fail \in FailSets :
          Join(ws, ident, r, fail)
    \/ \E i \in 1..MaxTasks : JoinHistory(i)
    \/ \E i \in 1..MaxTasks, fail \in FailSets : JoinPending(i, fail)
    \/ \E ws \in PresenceConn, fail \in FailSets : Close(ws, fail)

SpecPresence == Init /\ [][NextPresence]_vars

\* Room messages in two rooms: joins, leaves, messages and closes on two connections.
RoomMsgConn == {"c1", "c2"}

NextRoomMsg ==
    \/ \E ws \in RoomMsgConn : Open(ws)
    \/ \E ws \in RoomMsgConn, r \in RoomNames : Join(ws, IdentOf(ws), r, {})
    \/ \E i \in 1..MaxTasks : JoinHistory(i)
    \/ \E i \in 1..MaxTasks : JoinPending(i, {})
    \/ \E ws \in RoomMsgConn, r \in RoomNames : Leave(ws, r, {})
    \/ \E ws \in RoomMsgConn, r \in RoomNames, fail \in FailSets : Message(ws, r, TRUE, fail)
    \/ \E i \in 1..MaxTasks, ok \in BOOLEAN, fail \in FailSets : MessageSaved(i, ok, fail)
    \/ \E ws \in RoomMsgConn : Close(ws, {})

SpecRoomMsg == Init /\ [][NextRoomMsg]_vars

\* Group messages: two connections, with and without the offline queue.
GroupConn == {"c1", "c2"}
InitGroup == \E rabbit \in BOOLEAN : Start(FALSE, rabbit, {{}})

NextGroup ==
    \/ \E ws \in GroupConn : Open(ws)
    \/ \E ws \in GroupConn : Join(ws, IdentOf(ws), "general", {})
    \/ \E i \in 1..MaxTasks : JoinHistory(i)
    \/ \E i \in 1..MaxTasks : JoinPending(i, {})
    \/ \E ws \in GroupConn, ids \in RecipientLists, c \in BOOLEAN, fail \in FailSets :
          GroupMessage(ws, ids, c, fail)
    \/ \E i \in 1..MaxTasks, ok \in BOOLEAN, fail \in FailSets : GroupSaved(i, ok, fail)
    \/ \E i \in 1..MaxTasks, ok \in BOOLEAN, fail \in FailSets : GroupQueued(i, ok, fail)
    \/ \E ws \in GroupConn : Close(ws, {})

SpecGroup == InitGroup /\ [][NextGroup]_vars

\* ----------------------------------------------------------------- startup
\* The module before its top-level awaits have run: Bun.serve has been called,
\* the flags still have their declared values.
Boot ==
    /\ rooms = EmptyMap
    /\ clientRooms = [c \in Conn |-> <<>>]
    /\ clientData = [c \in Conn |-> NoData]
    /\ userIdToSocket = EmptyMap
    /\ typingUsers = EmptyMap
    /\ status = [c \in Conn |-> "boot"]
    /\ store = <<>>
    /\ blocked = {}
    /\ tasks = <<>>
    /\ rl = EmptyMap
    /\ unswept = EmptyMap
    /\ now = 0
    /\ redisEnabled = FALSE
    /\ useRabbitMQ = FALSE
    /\ relay = <<>>
    /\ sent = <<>>
    /\ last = Step

\* What REDIS_URL leads to: no url, a server that answers, one that does not.
RedisStates == { "unset", "up", "unreachable" }

\* The top-level awaits: testDatabase exits the process when the database
\* fails; initRedis returns false without a url, sets redisEnabled when the
\* pings and the subscribe succeed, and otherwise rejects, or never settles
\* (exits): nothing catches the rejection, so the module's evaluation fails and
\* initMessageQueue is never reached; initMessageQueue catches its own failure.
Startup(dbOk, redis, exits, rabbit) ==
    /\ \A c \in Conn : status[c] = "boot"
    /\ IF ~dbOk \/ (redis = "unreachable" /\ exits)
       THEN /\ status' = [c \in Conn |-> "down"]
            /\ UNCHANGED << redisEnabled, useRabbitMQ >>
       ELSE /\ status' = [c \in Conn |-> "idle"]
            /\ redisEnabled' = (redis = "up")
            /\ useRabbitMQ' = (rabbit /\ redis # "unreachable")
    /\ sent' = <<>>
    /\ last' = [Step EXCEPT !.op = "startup", !.key = redis, !.flag = dbOk,
                            !.threw = dbOk /\ redis = "unreachable"]
    /\ UNCHANGED << roomVars, presenceVars, typingUsers, store, tasks, rl, unswept, relay, now, blocked >>

\* Signals: startup, two connections, signals between users, the relay.
SignalConn == {"c1", "c2"}

NextSignal ==
    /\ \/ \E dbOk \in BOOLEAN, redis \in RedisStates, exits \in BOOLEAN, rabbit \in BOOLEAN :
             Startup(dbOk, redis, exits, rabbit)
       \/ \E ws \in SignalConn : Open(ws)
       \/ \E ws \in SignalConn : Join(ws, IdentOf(ws), "general", {})
       \/ \E i \in 1..MaxTasks : JoinHistory(i)
       \/ \E i \in 1..MaxTasks : JoinPending(i, {})
       \/ \E ws \in SignalConn, to \in RecipientIds, p \in BOOLEAN, fail \in FailSets :
             Signal(ws, to, p, fail)
       \/ \E fail \in FailSets : RelayEcho(fail)
       \/ \E e \in RemoteEnvelopes, fail \in FailSets : RelayRemote(e, fail)
       \/ \E ws \in SignalConn : Close(ws, {})
    /\ Len(relay') <= MaxRelay

SpecSignal == Boot /\ [][NextSignal]_vars

\* Room messages whose handlers overlap: up to MaxOverlap handlers of type
\* message are suspended at await saveMessage at once, and the saves, queries
\* of a connection pool, complete in any order.
FifoConn == {"c1", "c2"}

NextFifo ==
    \/ \E ws \in FifoConn : Open(ws)
    \/ \E ws \in FifoConn : Join(ws, IdentOf(ws), "general", {})
    \/ \E i \in 1..MaxOverlap : JoinHistory(i)
    \/ \E i \in 1..MaxOverlap : JoinPending(i, {})
    \/ \E ws \in FifoConn : MessageUpTo(MaxOverlap, ws, "general", TRUE, {})
    \/ \E i \in 1..MaxOverlap, ok \in BOOLEAN : MessageSaved(i, ok, {})
    \/ \E ws \in FifoConn : Close(ws, {})

SpecFifo == Init /\ [][NextFifo]_vars

\* Direct messages and joins whose handlers overlap: up to MaxOverlap handlers
\* are suspended at once; every query answers and every send is accepted.
DeliverConn == {"c1", "c2"}

NextDeliver ==
    \/ \E ws \in DeliverConn : Open(ws)
    \/ \E ws \in DeliverConn : JoinUpTo(MaxOverlap, ws, IdentOf(ws), "general", {})
    \/ \E i \in 1..MaxOverlap : JoinHistory(i)
    \/ \E i \in 1..MaxOverlap : JoinPending(i, {})
    \/ \E i \in 1..MaxOverlap : JoinMark(i, {})
    \/ \E ws \in DeliverConn, to \in {"u1", "u2"} : DmUpTo(MaxOverlap, ws, to, TRUE, {})
    \/ \E i \in 1..MaxOverlap : DmBlocked(i, TRUE, {})
    \/ \E i \in 1..MaxOverlap : DmSaved(i, TRUE, TRUE, {})
    \/ \E i \in 1..MaxOverlap : DmMarked(i, {})

SpecDeliver == Init /\ [][NextDeliver]_vars

\* The dm handler from its frame to its answer: bob on c2 sends, alice on c1
\* receives, closes and joins again; c2 stays open and accepts every send, a
\* send to c1 may throw. Every store call and every queue call returns or
\* throws: a suspended dm handler is resumed (weak fairness of its steps).
DmSender == "c2"

NextDm ==
    \/ \E ws \in {"c1", DmSender} : Open(ws)
    \/ \E ws \in {"c1", DmSender} : Join(ws, IdentOf(ws), "general", {})
    \/ \E i \in 1..MaxTasks : JoinHistory(i)
    \/ \E i \in 1..MaxTasks : JoinPending(i, {})
    \/ \E i \in 1..MaxTasks : JoinMark(i, {})
    \/ \E to \in RecipientIds, c \in BOOLEAN : Dm(DmSender, to, c, {})
    \/ \E i \in 1..MaxTasks, answered \in BOOLEAN : DmBlocked(i, answered, {})
    \/ \E i \in 1..MaxTasks, ok \in BOOLEAN, q \in BOOLEAN, fail \in FailSets :
          DmSaved(i, ok, q, fail)
    \/ \E i \in 1..MaxTasks : DmMarked(i, {})
    \/ Close("c1", {})

DmResumes ==
    /\ WF_vars(\E i \in 1..MaxTasks, answered \in BOOLEAN : DmBlocked(i, answered, {}))
    /\ WF_vars(\E i \in 1..MaxTasks, ok \in BOOLEAN, q \in BOOLEAN, fail \in FailSets :
                  DmSaved(i, ok, q, fail))
    /\ WF_vars(\E i \in 1..MaxTasks : DmMarked(i, {}))

SpecDm == InitMsg /\ [][NextDm]_vars /\ DmResumes

\* =================================================================== claims
\* The number of sends of an event of this type and room attempted to c.
Attempts(s, type, roomName, c) ==
    Cardinality({ i \in DOMAIN s : s[i].to = c /\ s[i].ev.type = type
                                   /\ s[i].ev.room = roomName })

\* C1: every broadcast attempts exactly one send to each connection that is a
\* member of the room when the broadcast starts, except the excluded one,
\* whether or not an earlier send of the loop threw: user_joined goes to the
\* members other than the joiner, user_left to the members that remain, for a
\* leave and for each room of a close.
C1_BroadcastReachesEveryMember ==
    [][ /\ last'.op = "join" =>
             \A c \in Conn : Attempts(sent', "user_joined", last'.room, c)
                 = IF c # last'.ws /\ IsMember(rooms', last'.room, c) THEN 1 ELSE 0
        /\ last'.op = "leave" =>
             \A c \in Conn : Attempts(sent', "user_left", last'.room, c)
                 = IF IsMember(rooms', last'.room, c) THEN 1 ELSE 0
        /\ last'.op = "close" =>
             \A r \in RoomNames, c \in Conn : Attempts(sent', "user_left", r, c)
                 = IF r \in Range(clientRooms[last'.ws]) /\ IsMember(rooms', r, c)
                   THEN 1 ELSE 0
      ]_vars

\* C1 witness: a join whose user_joined broadcast threw for one member and was
\* then sent to a later member, the joiner being excluded.
C1_Witness ==
    /\ last.op = "join"
    /\ Len(rooms[last.room]) = 3
    /\ Len(sent) = 2
    /\ ~sent[1].ok /\ sent[2].ok
    /\ \A i \in DOMAIN sent : sent[i].to # last.ws /\ sent[i].ev.type = "user_joined"

\* C2: every room of the registry has at least one member, and get_rooms lists
\* exactly the rooms of the registry, each with a userCount of at least 1.
C2_NoEmptyRoom ==
    /\ \A r \in DOMAIN rooms : Len(rooms[r]) >= 1
    /\ last.op = "get_rooms" =>
          /\ { e.name : e \in sent[1].ev.roomList } = DOMAIN rooms
          /\ \A e \in sent[1].ev.roomList : e.userCount >= 1

\* C2 witness: a get_rooms reply that lists one room after the other room was
\* emptied by its last member (now in no room) and deleted.
C2_Witness ==
    /\ last.op = "get_rooms"
    /\ Cardinality(sent[1].ev.roomList) = 1
    /\ \E c \in Conn : clientData[c] # NoData /\ clientRooms[c] = <<>>
                       /\ tasks = <<>>

\* C8 (as claimed): a join by a connection that is already a member of the room
\* leaves the member count unchanged and sends no user_joined event.
C8_RejoinIsSilent ==
    [][ (last'.op = "join" /\ last'.was) =>
            /\ Len(rooms'[last'.room]) = Len(rooms[last'.room])
            /\ \A i \in DOMAIN sent' : sent'[i].ev.type # "user_joined"
      ]_vars

\* C9 (as claimed): a leave for a room the connection is not a member of
\* changes no membership and sends no user_left event.
C9_LeaveOfNonMemberIsNoOp ==
    [][ (last'.op = "leave" /\ ~last'.was) =>
            /\ rooms' = rooms /\ clientRooms' = clientRooms
            /\ \A i \in DOMAIN sent' : sent'[i].ev.type # "user_left"
      ]_vars

\* The typing set of a room ({} when the room has none).
TypingSet(ty, roomName) == IF roomName \in DOMAIN ty THEN ty[roomName] ELSE {}

\* C5: every typing broadcast carries the room's whole current typing set; the
\* broadcast of a typing=false event does not contain the sender's username,
\* and a username that is not in a room's typing set enters it only by a
\* typing=true event of that username for that room.
C5_TypingBroadcastIsFullSet ==
    [][ /\ last'.op = "typing" =>
             /\ \A i \in DOMAIN sent' :
                   /\ sent'[i].ev.type = "typing"
                   /\ sent'[i].ev.room = last'.room
                   /\ sent'[i].ev.typing = TypingSet(typingUsers', last'.room)
             /\ last'.username \in TypingSet(typingUsers', last'.room) <=> last'.flag
             /\ \A c \in Conn : Attempts(sent', "typing", last'.room, c)
                   = IF IsMember(rooms', last'.room, c) THEN 1 ELSE 0
        /\ \A r \in RoomNames, u \in {"alice", "bob"} :
             (u \notin TypingSet(typingUsers, r) /\ u \in TypingSet(typingUsers', r))
                => (last'.op = "typing" /\ last'.flag /\ last'.username = u
                    /\ last'.room = r)
      ]_vars

\* C5 witness: a typing=false event of a username that was typing, broadcast to
\* the two members of the room without that username.
C5_Witness ==
    /\ last.op = "typing" /\ ~last.flag /\ last.was
    /\ Len(sent) = 2
    /\ last.username \notin sent[1].ev.typing
    /\ last.username \notin sent[2].ev.typing

\* C7: the broadcast of a saved room message sends one message event with the
\* id of the new row to every current member of the room, the sender included;
\* get_users returns the usernames of the current members, none of which is a
\* closed connection.
C7_MessageAndUserList ==
    /\ last.op = "message_saved" =>
          /\ last.id = Len(store)
          /\ store[last.id].roomName = last.room
          /\ \A i \in DOMAIN sent : sent[i].ev.type = "message" /\ sent[i].ev.id = last.id
          /\ \A c \in Conn : Attempts(sent, "message", last.room, c)
                = IF IsMember(rooms, last.room, c) THEN 1 ELSE 0
    /\ last.op = "get_users" =>
          LET members == IF last.room \in DOMAIN rooms THEN rooms[last.room] ELSE <<>>
          IN  /\ sent[1].ev.users = [i \in 1..Len(members) |-> clientData[members[i]].username]
              /\ \A i \in 1..Len(members) : status[members[i]] = "open"

\* C7 witness: after a room message was saved and a member closed, get_users
\* returns the one remaining member.
C7_Witness ==
    /\ last.op = "get_users"
    /\ sent[1].ev.users = << "alice" >>
    /\ Len(store) >= 1 /\ store[1].roomName = "general"
    /\ \E c \in Conn : status[c] = "closed" /\ clientData[c] # NoData

\* C10 (as claimed): a close removes from the presence directory only the
\* entries whose value is the closing connection.
C10_CloseKeepsNewerRegistration ==
    [][ last'.op = "close" =>
           \A u \in DOMAIN userIdToSocket :
              userIdToSocket[u] # last'.ws =>
                 (u \in DOMAIN userIdToSocket' /\ userIdToSocket'[u] = userIdToSocket[u])
      ]_vars

C4_WindowAndCap ==
    [][ last'.op = "check" =>
          LET k    == last'.key
              max  == IF last'.was THEN maxWsMessages ELSE maxRequests
              open == k \in DOMAIN rl /\ ~(now > rl[k].resetTime)
          IN  /\ k \in DOMAIN rl'
              /\ last'.flag <=> (rl'[k].count <= max)
              /\ last'.resetAt = rl'[k].resetTime
              /\ last'.remaining = MaxOf(0, max - rl'[k].count)
              /\ open => /\ rl'[k].count = rl[k].count + 1
                         /\ rl'[k].resetTime = rl[k].resetTime
              /\ ~open => /\ rl'[k].count = 1
                          /\ last'.flag
                          /\ rl'[k].resetTime = now + windowMs
              /\ \A j \in DOMAIN rl \ {k} : j \in DOMAIN rl' /\ rl'[j] = rl[j]
      ]_vars

\* C4 witness: a WebSocket check denied in a window that opened earlier: the
\* count is past the cap and resetAt is still the window's own.
C4_Witness ==
    /\ last.op = "check" /\ last.was /\ ~last.flag
    /\ rl[last.key].count = maxWsMessages + 2
    /\ last.resetAt < now + windowMs
    /\ last.resetAt >= now

\* C6: every envelope this process publishes carries its instance id, and the
\* delivery of an envelope that carries this instance id sends nothing to any
\* connection, while an envelope of another process for a room is sent once to
\* each local member of the room.
C6_SelfEchoSuppressed ==
    /\ \A i \in DOMAIN relay : relay[i].from = instanceId
    /\ (last.op = "redis_message" /\ last.peer = instanceId) => sent = <<>>
    /\ (last.op = "redis_message" /\ last.peer # instanceId /\ last.key = "broadcast") =>
          \A c \in Conn : Attempts(sent, "message", last.room, c)
              = IF IsMember(rooms, last.room, c) THEN 1 ELSE 0

\* C6 witness: the echo of a user_joined envelope comes back while the room has
\* two members, and nothing is sent.
C6_Witness ==
    /\ last.op = "redis_message" /\ last.peer = instanceId /\ last.key = "broadcast"
    /\ IsMember(rooms, last.room, "c1") /\ IsMember(rooms, last.room, "c2")
    /\ sent = <<>>

\* C11 (as claimed): every entry of the presence directory refers to a
\* connection that is open.
C11_PresenceEntriesAreOpen ==
    \A u \in DOMAIN userIdToSocket : status[userIdToSocket[u]] = "open"

\* C12: when a connection joins under a userId that is registered to another
\* connection, the directory then maps the userId to the joining connection;
\* the other connection stays open, keeps its identity and its rooms, and is
\* sent nothing but the user_joined broadcast of the joined room when it is a
\* member of that room, which it is then sent exactly once.
C12_LastJoinWins ==
    [][ (last'.op = "join" /\ last'.userId \in DOMAIN userIdToSocket
         /\ userIdToSocket[last'.userId] # last'.ws) =>
           LET A == userIdToSocket[last'.userId]
           IN  /\ lookup(userIdToSocket', last'.userId) = last'.ws
               /\ status'[A] = status[A]
               /\ clientData'[A] = clientData[A]
               /\ clientRooms'[A] = clientRooms[A]
               /\ \A r \in RoomNames : IsMember(rooms', r, A) <=> IsMember(rooms, r, A)
               /\ \A i \in DOMAIN sent' :
                     sent'[i].to = A => /\ sent'[i].ev.type = "user_joined"
                                        /\ sent'[i].ev.room = last'.room
               /\ Attempts(sent', "user_joined", last'.room, A)
                     = IF IsMember(rooms, last'.room, A) THEN 1 ELSE 0
      ]_vars

\* C12 witness: c3 has joined under the userId of c1; c1, open and with its
\* identity, is still a member of a room and is sent the user_joined broadcast
\* of a later join to that room.
C12_Witness ==
    /\ last.op = "join" /\ last.ws = "c2"
    /\ lookup(userIdToSocket, "u1") = "c3"
    /\ status["c1"] = "open" /\ clientData["c1"] # NoData
    /\ clientData["c1"].userId = "u1"
    /\ IsMember(rooms, last.room, "c1")
    /\ Attempts(sent, "user_joined", last.room, "c1") = 1

\* The steps that handle a frame of a kind other than join, up to its first await.
OtherKindOps == { "leave", "message", "message_rejected", "dm", "dm_rejected",
                  "typing", "typing_ignored", "get_rooms", "get_users" }

\* C13 (as claimed): a frame of a kind other than join on a connection that has
\* no identity is answered with exactly one error event to that connection,
\* changes no room, presence entry, typing set or store row, sends nothing to
\* any other connection, and leaves the connection open.
C13_NoIdentityMeansError ==
    [][ (last'.op \in OtherKindOps /\ clientData[last'.ws] = NoData) =>
           /\ Len(sent') = 1
           /\ sent'[1].to = last'.ws /\ sent'[1].ev.type = "error"
           /\ UNCHANGED << rooms, clientRooms, clientData, userIdToSocket, typingUsers, store >>
           /\ status'[last'.ws] = "open"
      ]_vars

\* C14 (as claimed): a message frame for a room is accepted for saving and
\* broadcast only when the sending connection is a member of that room.
C14_MessageNeedsMembership ==
    last.op = "message" => IsMember(rooms, last.room, last.ws)

\* C15 (as claimed), where no queue hand-off interrupts the fan-out and the
\* sender's own connection accepts every send: when the handler of a saved
\* group_message ends, every recipient registered in the
\* presence directory has been sent the group_message event, whether or not
\* another send threw, and the sender has been sent exactly one
\* group_message_sent whose sentCount plus offlineCount is the number of
\* recipient ids and whose offlineRecipients are the ids not registered.
C15_GroupFanOutIsIndependent ==
    (last.op \in {"group_sent", "group_failed"} /\ ~useRabbitMQ /\ ~last.threw) =>
        /\ \A k \in DOMAIN last.ids :
              lookup(userIdToSocket, last.ids[k]) # NoConn =>
                 \E i \in DOMAIN sent :
                    /\ sent[i].to = lookup(userIdToSocket, last.ids[k])
                    /\ sent[i].ev.type = "group_message"
        /\ Cardinality({ i \in DOMAIN sent : sent[i].ev.type = "group_message_sent" }) = 1
        /\ \A i \in DOMAIN sent :
              sent[i].ev.type = "group_message_sent" =>
                 /\ sent[i].to = last.ws
                 /\ sent[i].ev.sentCount + sent[i].ev.offlineCount = Len(last.ids)
                 /\ Range(sent[i].ev.offlineRecipients)
                       = { u \in Range(last.ids) : lookup(userIdToSocket, u) = NoConn }

\* C16: a dm handler reaches the point where it acknowledges delivery only by
\* the step in which its dm event was sent to the looked-up connection without
\* a throw; every dm_sent with status delivered comes from a handler that
\* stood at that point, for that message and that sender; and every dm_sent
\* with status offline comes from a handler whose lookup had found nobody.
C16_DeliveryBeforeAck ==
    [][ /\ \A k \in DOMAIN tasks' :
             (tasks'[k].pc = "dm_mark"
              /\ ~\E j \in DOMAIN tasks : tasks[j].pc = "dm_mark" /\ tasks[j].id = tasks'[k].id) =>
                 /\ last'.op = "dm_live"
                 /\ Len(sent') = 1
                 /\ sent'[1].ok /\ sent'[1].to = tasks'[k].sock
                 /\ sent'[1].ev.type = "dm" /\ sent'[1].ev.id = tasks'[k].id
        /\ \A i \in DOMAIN sent' :
             (sent'[i].ev.type = "dm_sent" /\ sent'[i].ev.status = "delivered") =>
                 \E j \in DOMAIN tasks :
                    /\ tasks[j].pc = "dm_mark" /\ tasks[j].id = sent'[i].ev.id
                    /\ tasks[j].ws = sent'[i].to
        /\ \A i \in DOMAIN sent' :
             (sent'[i].ev.type = "dm_sent" /\ sent'[i].ev.status = "offline") =>
                 \E j \in DOMAIN tasks :
                    /\ tasks[j].pc = "dm_save" /\ tasks[j].sock = NoConn
                    /\ tasks[j].ws = sent'[i].to
      ]_vars

\* C16 witness: bob's connection was sent the dm event of a row, and alice's
\* handler then acknowledges that row as delivered.
C16_Witness ==
    /\ last.op = "dm_marked" /\ last.sock = "c2" /\ last.ws # "c2"
    /\ Len(sent) = 1 /\ sent[1].ok
    /\ sent[1].ev.type = "dm_sent" /\ sent[1].ev.status = "delivered"
    /\ store[sent[1].ev.id].recipientId = "u2"

\* C17 (as claimed): the first pending direct message that a join replays is
\* the oldest undelivered row addressed to the joining user, and each later one
\* is older than every row still undelivered when it is sent.
C17_PendingOldestFirst ==
    /\ (last.op = "join_pending" /\ Len(sent) = 2) =>
          \A i \in 1..Len(store) :
             (store[i].recipientId = last.userId /\ ~store[i].delivered)
                => sent[2].ev.id <= i
    /\ (last.op = "join_mark" /\ Len(sent) = 1) =>
          store[last.id].delivered /\ last.id < sent[1].ev.id

\* The steps that handle a malformed frame.
MalformedOps == { "invalid_json", "not_an_object", "join_invalid", "message_rejected",
                  "dm_rejected", "group_rejected" }

\* C18 (as claimed), for frames whose replies are sent without a throw: a
\* malformed frame is answered with exactly one error event to its sender, no
\* exception leaves the handler, and the connection stays open.
C18_MalformedFrameGetsOneError ==
    (last.op \in MalformedOps /\ \A i \in DOMAIN sent : sent[i].ok) =>
        /\ Len(sent) = 1
        /\ sent[1].to = last.ws /\ sent[1].ev.type = "error"
        /\ ~last.threw
        /\ status[last.ws] = "open"

\* C19: a frame that the rate limiter denies is answered with one error event
\* to its sender that carries the limiter's remaining and resetAt, and changes
\* nothing but the limiter's count: no room, presence entry, typing set, store
\* row or suspended handler changes and no other connection is sent anything;
\* and every frame that is handled in any other way was counted within the cap.
C19_DeniedFrameIsNotProcessed ==
    [][ /\ last'.op = "rate_limited" =>
             /\ Len(sent') = 1
             /\ sent'[1].to = last'.ws /\ sent'[1].ev.type = "error"
             /\ sent'[1].ev.remaining = 0
             /\ sent'[1].ev.resetAt = rl'[identifier(last'.ws)].resetTime
             /\ rl'[identifier(last'.ws)].count > maxWsMessages
             /\ UNCHANGED << rooms, clientRooms, clientData, userIdToSocket, typingUsers,
                             store, tasks, status, relay >>
        /\ (last'.op # "rate_limited" /\ rl' # rl) =>
             rl'[identifier(last'.ws)].count <= maxWsMessages
      ]_vars

\* C19 witness: a frame is denied while rooms have members; its error reply
\* carries remaining 0 and the end of the window.
C19_Witness ==
    /\ last.op = "rate_limited"
    /\ \E r \in DOMAIN rooms : Len(rooms[r]) >= 2
    /\ sent[1].ev.type = "error" /\ sent[1].ev.remaining = 0
    /\ sent[1].ev.resetAt = windowMs

\* C20 (as claimed): while the time is before the resetAt of a key's window the
\* entry stays and its count never decreases, a check adding one to it; a check
\* at or after that resetAt, or of a key without an entry, starts a window
\* whose count is 1 after the check and whose resetAt is the time of the check
\* plus one window length.
C20_WindowBoundary ==
    [][ /\ \A k \in DOMAIN rl :
             now' < rl[k].resetTime =>
                /\ k \in DOMAIN rl'
                /\ rl'[k].count >= rl[k].count
                /\ rl'[k].resetTime = rl[k].resetTime
        /\ last'.op = "check" =>
             LET k == last'.key
             IN  IF k \in DOMAIN rl /\ now < rl[k].resetTime
                 THEN rl'[k].count = rl[k].count + 1
                 ELSE /\ rl'[k].count = 1
                      /\ rl'[k].resetTime = now + windowMs
                      /\ last'.resetAt = now + windowMs
      ]_vars

\* C21: a sweep removes an entry only when the time is past the entry's
\* resetTime and leaves every other entry as it was, adding none; and the
\* limiter's store changes only by one whole check, after which the checked key
\* has its entry, or by one whole sweep.
C21_SweepRemovesOnlyElapsed ==
    [][ /\ last'.op = "cleanup" =>
             /\ DOMAIN rl' \subseteq DOMAIN rl
             /\ \A k \in DOMAIN rl :
                   IF now > rl[k].resetTime THEN k \notin DOMAIN rl'
                   ELSE k \in DOMAIN rl' /\ rl'[k] = rl[k]
        /\ rl' # rl => last'.op \in {"check", "cleanup"}
        /\ last'.op = "check" =>
             /\ last'.key \in DOMAIN rl'
             /\ rl'[last'.key].count >= 1
             /\ last'.resetAt = rl'[last'.key].resetTime
      ]_vars

\* C21 witness: a sweep has removed one entry, whose window had elapsed, and
\* kept the entry of the other key, whose window is still open.
C21_Witness ==
    /\ last.op = "cleanup" /\ last.id = 1
    /\ Cardinality(DOMAIN rl) = 1
    /\ \A k \in DOMAIN rl : now < rl[k].resetTime

\* C22 (as claimed), the sender's own connection accepting every send: a signal
\* from a joined sender with a valid target and an object payload ends in one
\* of three ways: the target's connection is sent
\* the signal event and the sender signal_sent; or one signal envelope is
\* published and the sender is sent signal_sent via the relay; or the sender is
\* sent the error Recipient not connected.
C22_SignalThreeOutcomes ==
    /\ (last.op = "signal_local" /\ ~last.threw) =>
          /\ Len(sent) = 2
          /\ sent[1].to = last.sock /\ sent[1].ev.type = "signal"
          /\ sent[2].to = last.ws /\ sent[2].ev.type = "signal_sent"
    /\ last.op = "signal_relayed" =>
          /\ Len(sent) = 1 /\ sent[1].ev.type = "signal_sent" /\ sent[1].ev.status = "redis"
    /\ last.op = "signal_unreachable" =>
          /\ Len(sent) = 1 /\ sent[1].ev.type = "error"
          /\ sent[1].ev.status = "Recipient not connected"

\* C22 (amended): the three outcomes, and a fourth: when the target is
\* registered locally and a send of the forwarding throws, the sender is sent
\* the error Failed to forward signal after the sends attempted so far. The
\* outcome follows the lookup and the relay flag of the moment; exactly the
\* relayed outcome publishes, one signal envelope for the target that carries
\* this process's id; the store is never written.
C22_SignalOutcomes ==
    [][ /\ last'.op \in {"signal_local", "signal_relayed", "signal_unreachable"} =>
             /\ store' = store
             /\ (last'.op = "signal_local") <=> (lookup(userIdToSocket, last'.peer) # NoConn)
             /\ (last'.op = "signal_relayed") <=>
                   (lookup(userIdToSocket, last'.peer) = NoConn /\ redisEnabled)
             /\ last'.op # "signal_relayed" => relay' = relay
        /\ last'.op = "signal_local" =>
             /\ last'.sock = userIdToSocket[last'.peer]
             /\ sent'[1].to = last'.sock /\ sent'[1].ev.type = "signal"
             /\ sent'[1].ev.peer = clientData[last'.ws].userId
             /\ IF \A i \in DOMAIN sent' : sent'[i].ok
                THEN /\ Len(sent') = 2
                     /\ sent'[2].to = last'.ws /\ sent'[2].ev.type = "signal_sent"
                ELSE /\ sent'[Len(sent')].to = last'.ws
                     /\ sent'[Len(sent')].ev = Error("Failed to forward signal")
                     /\ ~sent'[Len(sent') - 1].ok
                     /\ \A i \in 1..(Len(sent') - 2) : sent'[i].ok
        /\ last'.op = "signal_relayed" =>
             /\ relay' = Append(relay, [from |-> instanceId, type |-> "signal", room |-> "",
                                        to |-> last'.peer, data |-> "payload"])
             /\ Len(sent') = 1 /\ sent'[1].to = last'.ws
             /\ sent'[1].ev.type = "signal_sent" /\ sent'[1].ev.status = "redis"
        /\ last'.op = "signal_unreachable" =>
             /\ Len(sent') = 1 /\ sent'[1].to = last'.ws
             /\ sent'[1].ev = Error("Recipient not connected")
      ]_vars

\* C22 witness: with the relay enabled, a signal for a user who is not
\* registered was published and acknowledged as sent via the relay.
C22_Witness ==
    /\ last.op = "signal_relayed"
    /\ relay # <<>> /\ relay[Len(relay)].type = "signal" /\ relay[Len(relay)].to = last.peer
    /\ sent[1].ok /\ sent[1].ev.status = "redis"

\* C23 (as claimed): when the database answers at startup the process runs,
\* whatever the state of the relay transport; without a relay server that
\* answers the relay is disabled; and while it is disabled nothing is
\* published and a signal for a user who is not registered locally is
\* answered at once with an error.
C23_StartsWithoutRelay ==
    /\ (last.op = "startup" /\ last.flag) =>
          /\ \A c \in Conn : status[c] = "idle"
          /\ last.key # "up" => ~redisEnabled
    /\ ~redisEnabled =>
          /\ relay = <<>>
          /\ last.op # "signal_relayed"

\* C24 (as claimed): of two messages one connection sent to one room, every
\* connection that was sent both was sent the earlier frame's message first:
\* rows are appended to the store in the order of their broadcasts, so the row
\* of the earlier frame comes first.
C24_FifoPerSenderAndRoom ==
    \A i, j \in DOMAIN store :
        ( /\ store[i].recipientId = "" /\ store[j].recipientId = ""
          /\ store[i].senderId = store[j].senderId
          /\ store[i].roomName = store[j].roomName
          /\ store[i].seq < store[j].seq
          /\ store[i].heard \cap store[j].heard # {} ) => i < j

\* C25 (as claimed): the close step takes the connection out of every room
\* and out of the presence directory: a room it was the last member of is
\* deleted, the members that remain in each other room of its are each sent
\* one user_left with the new count, and it is a member of no room; and no
\* step after the close, the resumption of a suspended handler of that
\* connection included, puts it back into a room or into the directory.
C25_CloseRemovesEverywhere ==
    [][ /\ last'.op = "close" =>
             LET ws == last'.ws
             IN  /\ \A r \in DOMAIN rooms' : ws \notin Range(rooms'[r]) /\ rooms'[r] # <<>>
                 /\ clientRooms'[ws] = <<>>
                 /\ \A r \in Range(clientRooms[ws]) :
                        IF Remove(rooms[r], ws) = <<>>
                        THEN r \notin DOMAIN rooms'
                        ELSE \A c \in Range(rooms'[r]) :
                                /\ Attempts(sent', "user_left", r, c) = 1
                                /\ \A i \in DOMAIN sent' :
                                       (sent'[i].to = c /\ sent'[i].ev.room = r) =>
                                          sent'[i].ev.userCount = Len(rooms'[r])
                 /\ \A u \in DOMAIN userIdToSocket' : userIdToSocket'[u] # ws
        /\ \A ws \in Conn : status[ws] = "closed" =>
               /\ \A r \in DOMAIN rooms' : ws \notin Range(rooms'[r])
               /\ \A u \in DOMAIN userIdToSocket' : userIdToSocket'[u] # ws
      ]_vars

\* C26 (as claimed): a dm between two users one of whom has blocked the other
\* is answered with an error to the sender and goes no further: the handler
\* ends at the block check, nothing is sent to the recipient, and the store
\* never holds a dm row between the two.
C26_BlockedDmIsRejected ==
    [][ /\ ( /\ last'.op \in {"dm_lookup", "dm_is_blocked"}
              /\ \/ <<last'.userId, last'.peer>> \in blocked
                 \/ <<last'.peer, last'.userId>> \in blocked ) =>
                /\ last'.op = "dm_is_blocked"
                /\ Len(sent') = 1 /\ sent'[1].to = last'.ws /\ sent'[1].ev.type = "error"
                /\ store' = store
                /\ Len(tasks') = Len(tasks) - 1
        /\ \A i \in DOMAIN store' :
               store'[i].recipientId # "" =>
                  /\ <<store'[i].senderId, store'[i].recipientId>> \notin blocked
                  /\ <<store'[i].recipientId, store'[i].senderId>> \notin blocked
      ]_vars

\* C27 (as claimed): with the relay enabled, a room event that starts on this
\* process is published exactly once, whoever is left in the room here: a join
\* publishes one user_joined envelope for the room, the leave of a member one
\* user_left envelope for the room, and a close one user_left envelope for
\* each room of the connection.
C27_EveryRoomEventIsPublishedOnce ==
    [][ redisEnabled =>
          /\ last'.op = "join" =>
                /\ Len(relay') = Len(relay) + 1
                /\ relay'[Len(relay')].room = last'.room
                /\ relay'[Len(relay')].data.type = "user_joined"
          /\ (last'.op = "leave" /\ last'.was) =>
                /\ Len(relay') = Len(relay) + 1
                /\ relay'[Len(relay')].room = last'.room
                /\ relay'[Len(relay')].data.type = "user_left"
          /\ last'.op = "close" =>
                /\ Len(relay') = Len(relay) + Len(clientRooms[last'.ws])
                /\ \A r \in Range(clientRooms[last'.ws]) :
                       \E i \in (Len(relay) + 1)..Len(relay') :
                          relay'[i].room = r /\ relay'[i].data.type = "user_left"
      ]_vars

\* The dm row has been sent to its recipient: it is marked delivered, or the
\* handler that sent it is suspended at await markDelivered.
SentBefore(id) ==
    /\ id \in DOMAIN store
    /\ \/ store[id].delivered
       \/ \E n \in DOMAIN tasks :
             \/ tasks[n].pc = "dm_mark" /\ tasks[n].id = id
             \/ tasks[n].pc = "join_mark" /\ Head(tasks[n].pend) = id

\* C28 (as claimed): a dm row is sent to its recipient as a dm event at most
\* once, the live send of the dm handler and the replay of pending rows at
\* join counted together: no step sends the dm event of a row that has been
\* sent before.
C28_DmSentAtMostOnce ==
    [][ \A i \in DOMAIN sent' :
           (sent'[i].ok /\ sent'[i].ev.type = "dm") => ~SentBefore(sent'[i].ev.id) ]_vars

\* The members of the room that the presence directory maps their userId to.
RegisteredMembers(roomName) ==
    IF roomName \notin DOMAIN rooms THEN <<>>
    ELSE SelectSeq(rooms[roomName],
                   LAMBDA c : /\ clientData[c] # NoData
                              /\ lookup(userIdToSocket, clientData[c].userId) = c)

\* C29 (as claimed): the user_list that answers get_users names exactly the
\* members of the room that are registered in the presence directory; a member
\* whose userId now belongs to another connection is not named.
C29_UserListIsRegisteredMembers ==
    last.op = "get_users" =>
        /\ Len(sent[1].ev.users) = Len(RegisteredMembers(last.room))
        /\ \A i \in DOMAIN sent[1].ev.users :
               sent[1].ev.users[i] = clientData[RegisteredMembers(last.room)[i]].username

\* C30 (as claimed): the WebSocket limit and the HTTP limit of one identity
\* key are counted each on its own: a check of a user key, the key both modes
\* build for an authenticated user, leaves what the next check of the key in
\* the other mode is answered (allowed, remaining) as it was before.
C30_LimitsCountedSeparately ==
    [][ (last'.op = "check" /\ last'.key[1] = "user") =>
          LET before == checkLimit(rl, last'.key, ~last'.was, now)
              after  == checkLimit(rl', last'.key, ~last'.was, now)
          IN  /\ after.allowed = before.allowed
              /\ after.remaining = before.remaining ]_vars

\* C31: a message event is sent only by the step in which the save of that
\* message succeeded, and it carries the fields of the row that step appended;
\* when the save fails the store and the rooms are unchanged, the only send is
\* one error reply to the sender, and the sender's connection stays open.
C31_PersistThenBroadcast ==
    [][ /\ (\E i \in DOMAIN sent' : sent'[i].ev.type = "message") =>
              last'.op = "message_saved"
        /\ last'.op = "message_saved" =>
              /\ Len(store') = Len(store) + 1
              /\ SubSeq(store', 1, Len(store)) = store
              /\ LET row == store'[Len(store')]
                 IN  \A i \in DOMAIN sent' :
                        /\ sent'[i].ev.type = "message"
                        /\ sent'[i].ev.id = row.id /\ row.id = Len(store')
                        /\ sent'[i].ev.room = row.roomName
                        /\ sent'[i].ev.username = row.username
                        /\ sent'[i].ev.peer = row.senderId
                        /\ sent'[i].ev.seq = row.seq
        /\ last'.op = "message_failed" =>
              /\ store' = store /\ rooms' = rooms
              /\ Len(sent') = 1 /\ sent'[1].to = last'.ws
              /\ sent'[1].ev = Error("Failed to save message")
              /\ status'[last'.ws] = status[last'.ws]
      ]_vars

\* C31 witness: a save failed for a room with two members, and the sender was
\* sent the error reply.
C31_Witness ==
    /\ last.op = "message_failed"
    /\ last.room \in DOMAIN rooms /\ Len(rooms[last.room]) = 2
    /\ IsMember(rooms, last.room, last.ws)
    /\ Len(sent) = 1 /\ sent[1].ok /\ sent[1].ev.type = "error"

\* C32 (as claimed): a signal event sent to a connection carries as from the
\* userId of the user who sent the signal: the sender's userId when the
\* handler forwards it directly, and a userId as well when it arrives in an
\* envelope of another process.
C32_SignalFromIsSenderUserId ==
    /\ last.op = "signal_local" => sent[1].ev.peer = clientData[last.ws].userId
    /\ \A i \in DOMAIN sent : sent[i].ev.type = "signal" => sent[i].ev.peer \in UserIds

\* C33: the delivery of an envelope of another process publishes nothing and
\* changes no room and no registration; a broadcast envelope is sent once to
\* each local member of its room and to nobody else (to nobody when the room
\* does not exist here), a signal envelope once to the connection registered
\* here for its target, when there is one.
C33_RemoteEnvelopeStaysLocal ==
    [][ (last'.op = "redis_message" /\ last'.peer # instanceId) =>
          /\ relay' = relay
          /\ rooms' = rooms /\ userIdToSocket' = userIdToSocket
          /\ last'.key = "broadcast" =>
                /\ \A c \in Conn : Attempts(sent', "message", last'.room, c)
                      = IF IsMember(rooms, last'.room, c) THEN 1 ELSE 0
                /\ Len(sent') = IF last'.room \in DOMAIN rooms
                                THEN Len(rooms[last'.room]) ELSE 0
          /\ last'.key = "signal" =>
                IF lookup(userIdToSocket, last'.userId) = NoConn
                THEN sent' = <<>>
                ELSE /\ Len(sent') = 1
                     /\ sent'[1].to = userIdToSocket[last'.userId]
                     /\ sent'[1].ev.type = "signal"
      ]_vars

\* C33 witness: a broadcast envelope of the other process was delivered to the
\* two local members of its room while an envelope of this process was still
\* on its way.
C33_Witness ==
    /\ last.op = "redis_message" /\ last.peer = OtherInstance /\ last.key = "broadcast"
    /\ last.room \in DOMAIN rooms /\ Len(rooms[last.room]) = 2
    /\ Len(sent) = 2
    /\ relay # <<>>

\* C34 (as claimed): a dm handler goes on to mark the row delivered and to
\* acknowledge it as delivered only when, at the step of the live send, the
\* connection the dm event was sent to was open and was the one registered
\* for the recipient.
C34_DeliveredMeansSentToLiveRecipient ==
    [][ (last'.op = "dm_live" /\ last'.flag) =>
          /\ status[last'.sock] = "open"
          /\ lookup(userIdToSocket, last'.peer) = last'.sock ]_vars

\* C35: in every reachable state a connection is in the member set of a room
\* exactly when the room is in the connection's own set of joined rooms, and
\* every room in a connection's set of joined rooms exists in the registry.
C35_MembershipBothWays ==
    /\ \A c \in Conn : \A r \in Range(clientRooms[c]) :
           r \in DOMAIN rooms /\ c \in Range(rooms[r])
    /\ \A r \in DOMAIN rooms : \A c \in Range(rooms[r]) : r \in Range(clientRooms[c])

\* C35 witness: one connection is in two rooms, shares just one of them with
\* another connection, and a third connection that had joined has closed.
C35_Witness ==
    /\ \E c \in Conn : Len(clientRooms[c]) = 2
    /\ \E c \in Conn : Len(clientRooms[c]) = 1
    /\ \E c \in Conn : status[c] = "closed" /\ clientData[c] # NoData
    /\ \E r \in DOMAIN rooms : Len(rooms[r]) = 2
    /\ \E r \in DOMAIN rooms : Len(rooms[r]) = 1

\* The answers to the sender among the sends: dm_sent and error events.
Responses(s, c) ==
    Cardinality({ i \in DOMAIN s : s[i].to = c /\ s[i].ev.type \in {"dm_sent", "error"} })

\* A dm handler is suspended at one of its awaits.
DmPending == \E i \in DOMAIN tasks : tasks[i].pc \in {"dm_blocked", "dm_save", "dm_mark"}

\* The steps of a dm handler, and those in which it ends.
DmOps == {"dm", "dm_rejected", "dm_lookup", "dm_is_blocked", "dm_failed", "dm_offline",
          "dm_live", "dm_marked"}
DmEnded ==
    \/ last.op \in {"dm_rejected", "dm_is_blocked", "dm_failed", "dm_offline", "dm_marked"}
    \/ last.op = "dm_live" /\ ~last.flag

\* C36: a dm frame of a joined sender whose connection stays open is answered
\* exactly once, with dm_sent or with error: the step in which the handler
\* ends sends the sender one answer, no earlier step of the handler sends it
\* any, and a suspended handler does end.
C36_DmAnsweredExactlyOnce ==
    /\ [][ last'.op \in DmOps =>
             Responses(sent', last'.ws) = IF DmEnded' THEN 1 ELSE 0 ]_vars
    /\ (DmPending ~> (DmEnded /\ last.op # "dm_rejected" /\ Responses(sent, last.ws) = 1))

\* C36 witness: the queue hand-off of a saved dm for a user who is not
\* registered threw, and the sender was sent the one error reply.
C36_Witness ==
    /\ last.op = "dm_offline" /\ ~last.flag /\ last.ws = DmSender
    /\ Len(store) >= 1 /\ store[last.id].recipientId = last.peer
    /\ Len(sent) = 1 /\ sent[1].ev.type = "error"

\* C37 (as claimed): a dm for which its sender was sent an error reply is
\* never sent to the recipient afterwards: no step sends the dm event of a row
\* of the store for which the error reply was sent, neither a live send nor
\* the replay of pending rows at a join.
C37_ErrorMeansNeverDelivered ==
    [][ \A i \in DOMAIN sent' :
           ( /\ sent'[i].ok /\ sent'[i].ev.type = "dm"
             /\ sent'[i].ev.id \in DOMAIN store ) => ~store[sent'[i].ev.id].failed ]_vars

\* C38 (as claimed): in every reachable state each username in the typing set
\* of a room is the username of a connection that is a member of that room.
C38_TypingOnlyMembers ==
    \A r \in DOMAIN typingUsers : \A u \in typingUsers[r] :
        \E c \in Conn : IsMember(rooms, r, c) /\ clientData[c].username = u

\* C39: the sweep cannot be observed through the checks: every check returns
\* the allowed, remaining and resetAt that the same check returns from the
\* store of the same sequence of checks with no sweep at all, and the two
\* stores agree on every entry whose window has not elapsed.
C39_SweepIsTransparent ==
    [][ /\ last'.op = "check" =>
             LET c == checkLimit(unswept, last'.key, last'.was, now)
             IN  /\ last'.flag = c.allowed
                 /\ last'.remaining = c.remaining
                 /\ last'.resetAt = c.resetAt
        /\ \A k \in DOMAIN unswept' :
             ~(now' > unswept'[k].resetTime) => (k \in DOMAIN rl' /\ rl'[k] = unswept'[k])
        /\ \A k \in DOMAIN rl' : k \in DOMAIN unswept' /\ rl'[k] = unswept'[k]
      ]_vars

\* C39 witness: a check inside a window that counts its second request or a
\* later one, after a sweep has removed the elapsed entry of another key.
C39_Witness ==
    /\ last.op = "check"
    /\ rl[last.key].count >= 2
    /\ DOMAIN unswept \ DOMAIN rl # {}

====
